---- MODULE Spec2Model ----
(***************************************************************************)
(* Transaction core of the clixon backend (apps/backend/backend_commit.c). *)
(*                                                                         *)
(* The backend is single-threaded: a handler runs to completion, so every  *)
(* entry point is one action.  What a handler does step by step is kept in *)
(* `log`, the sequence of plugin callbacks and engine effects of the last  *)
(* call, each stamped with the content running had at that moment.         *)
(*                                                                         *)
(* An XML configuration tree is a tree over the fixed schema               *)
(*        top -- a -- ax (leaf, value 1..MaxVal)                           *)
(*            \- b       (leaf, a reference to a/ax)                       *)
(* A content gives the value of every leaf, 0 meaning absent; the          *)
(* container a is present iff its leaf is.                                 *)
(***************************************************************************)
EXTENDS Integers, Sequences, FiniteSets, TLC

NPlugins == 2
MaxVal == 2
MaxCalls == 2

Plugins == 1..NPlugins

DbNames == {"running", "candidate", "startup", "failsafe", "tmp", "rollback"}

Nodes == {"top", "a", "ax", "b"}
DocOrder == <<"top", "a", "ax", "b">>
Parent == [n \in Nodes |-> CASE n = "ax" -> "a" [] OTHER -> "top"]

RECURSIVE AncSet(_)
AncSet(n) == IF n = "top" THEN {} ELSE {Parent[n]} \cup AncSet(Parent[n])

Contents == [ax : 0..MaxVal, b : 0..1]
EmptyContent == [ax |-> 0, b |-> 0]
NoDb == [ax |-> -1, b |-> -1]

Present(c, n) ==
    CASE n = "top" -> c # NoDb
      [] n = "a"   -> c.ax > 0
      [] n = "ax"  -> c.ax > 0
      [] n = "b"   -> c.b > 0

Flags == {"MARK", "ADD", "DEL", "CHANGE"}
Clean == [n \in Nodes |-> {}]

(* The request handed to candidate_commit: none (NULL), a plain <commit/>, *)
(* or a <commit><confirmed/></commit>.                                     *)
Requests == {"NULL", "commit", "confirmed"}

(***************************************************************************)
(* The environment of one call.  A fault names the first step of the call  *)
(* that does not succeed: a plugin callback returning -1 (k = "cb"), a     *)
(* library routine returning -1 (k = "err") or returning 0, "invalid"      *)
(* (k = "inv").  Every handler leaves at the first failing step, so the    *)
(* steps after it never run and one fault describes the whole call; the    *)
(* abort callbacks, whose result the engine never reads, get their own     *)
(* input.                                                                  *)
(***************************************************************************)
CbPhases == {"begin", "validate", "complete", "commit", "commit_done", "end"}
ErrSteps == {"transaction_new", "yspec", "get_target", "get_src", "xml_diff",
             "generic_validate", "confirmed_commit", "xml2cbuf",
             "get0_clear", "xmldb_copy", "yspec2",
             "modstate_new", "datastore_upgrade", "module_upgrade", "bind_yang",
             "non_config", "xml_sort", "xmldb_delete", "xmldb_create",
             "xmldb_put", "db_reset", "context_check1", "context_check2",
             "validate_all_top", "xmldb_exists", "backup_copy",
             "rpc_yspec", "confirmed_commit1", "in_use"}
InvSteps == {"get_target", "get_src", "module_upgrade", "bind_yang",
             "non_config", "xmldb_put"}

NoFault == [k |-> "none", ph |-> "-", p |-> 0]
Faults == {NoFault}
          \cup [k : {"cb"}, ph : CbPhases, p : Plugins]
          \cup [k : {"err"}, ph : ErrSteps, p : {0}]
          \cup [k : {"inv"}, ph : InvSteps, p : {0}]

ErrAt(f, step) == f.k = "err" /\ f.ph = step
InvAt(f, step) == f.k = "inv" /\ f.ph = step
FirstFail(f, ph) == IF f.k = "cb" /\ f.ph = ph THEN f.p ELSE 0

VARIABLES db, dirty, flags, cc, feature, booted, pc, ncalls, prev, log, td, call,
          cl, io, dbg, netns

vars == <<db, dirty, flags, cc, feature, booted, pc, ncalls, prev, log, td, call,
          cl, io, dbg, netns>>

(* The part of the state a handler works on. *)
Cur == [db |-> db, dirty |-> dirty, flags |-> flags, cc |-> cc, log |-> <<>>]

(* A transaction: the names and the content of its two trees (ttree,      *)
(* stree), its vectors, and                                               *)
(* for the properties the flags its two trees carried when they had been  *)
(* loaded and cleared (sclr, tclr) and when they had been marked (smark,  *)
(* tmark), which is what the plugins see from begin on.                   *)
NullTd == [alloc |-> FALSE, target |-> "NULL", src |-> "NULL", ttree |-> NoDb,
           stree |-> NoDb,
           dvec |-> <<>>, avec |-> <<>>, scvec |-> <<>>, tcvec |-> <<>>,
           marked |-> FALSE, sclr |-> Clean, tclr |-> Clean,
           smark |-> Clean, tmark |-> Clean]
NewTd == [NullTd EXCEPT !.alloc = TRUE]

Out(s, t, r) == [s |-> s, td |-> t, ret |-> r]

Ev(s, ev, p, ok) == [ev |-> ev, p |-> p, ok |-> ok, run |-> s.db["running"]]
Emit(s, ev, p, ok) == [s EXCEPT !.log = Append(@, Ev(s, ev, p, ok))]

----------------------------------------------------------------------------
(* Plugin bus *)

(* *_all: the callbacks of one phase, in registration order, up to and     *)
(* including the first that fails; end is delivered to every plugin.       *)
plugin_transaction_all(s, ph, f) ==
    LET ff == FirstFail(f, ph)
        last == IF ff = 0 \/ ph = "end" THEN NPlugins ELSE ff
        evs == [i \in 1..last |-> Ev(s, ph, i, i # ff)]
    IN [s |-> [s EXCEPT !.log = @ \o evs], ret |-> IF ff = 0 THEN 0 ELSE -1]

(* *_one: the callback of one plugin. *)
plugin_transaction_one(s, cp, ph, f) ==
    LET ok == FirstFail(f, ph) # cp
    IN [s |-> Emit(s, ph, cp, ok), ret |-> IF ok THEN 0 ELSE -1]

Observed(lg, ph) == {lg[i].p : i \in {j \in 1..Len(lg) : lg[j].ev = ph}}

(* abort delivered to every registered plugin *)
plugin_transaction_abort_all_everyone(s, af) ==
    LET evs == [i \in 1..NPlugins |-> Ev(s, "abort", NPlugins + 1 - i, ~af)]
    IN [s EXCEPT !.log = @ \o evs]

(* abort_all: abort on every plugin that observed begin, last first; the   *)
(* callbacks' own failures (af) are logged and nothing else.               *)
plugin_transaction_abort_all(s, af) ==
    LET obs == Observed(s.log, "begin")
        IsObs(p) == p \in obs
        rev == [i \in 1..NPlugins |-> NPlugins + 1 - i]
        ps == SelectSeq(rev, IsObs)
        evs == [i \in 1..Len(ps) |-> Ev(s, "abort", ps[i], ~af)]
    IN [s EXCEPT !.log = @ \o evs]

----------------------------------------------------------------------------
(* Datastore manager *)

xmldb_exists(s, d) == s.db[d] # NoDb

(* A mutation of a store invalidates its cached tree. *)
xmldb_write(s, d, c) == [s EXCEPT !.db[d] = c, !.flags[d] = Clean]
xmldb_copy(s, from, to) == xmldb_write(s, to, s.db[from])
xmldb_db_reset(s, d) == xmldb_write(s, d, EmptyContent)
xmldb_delete(s, d) == xmldb_write(s, d, NoDb)
xmldb_create(s, d) == xmldb_write(s, d, EmptyContent)
xmldb_modified_set(s, d, bit) == [s EXCEPT !.dirty[d] = bit]

(* get0_clear drops the flags (and defaults) of a cached tree. *)
xmldb_get0_clear(s, d) == IF d = "NULL" THEN s ELSE [s EXCEPT !.flags[d] = Clean]

----------------------------------------------------------------------------
(* XML object model, diff engine, validator *)

xml_flag_reset_all(fl, fs) == [n \in Nodes |-> fl[n] \ fs]

InVec(vec, n) == \E i \in 1..Len(vec) : vec[i] = n
UnderVec(vec, n) == \E i \in 1..Len(vec) : vec[i] \in AncSet(n)
OverVec(vec, n) == \E i \in 1..Len(vec) : n \in AncSet(vec[i])

(* MarkDown without xml_apply: the flag is set on the node only *)
MarkDown_shallow(fl, c, vec, F) ==
    [n \in Nodes |-> fl[n]
        \cup (IF InVec(vec, n) THEN {F} ELSE {})
        \cup (IF OverVec(vec, n) THEN {"CHANGE"} ELSE {})]

(* xml_flag_set + xml_apply(xml_flag_set) + xml_apply_ancestor(CHANGE) *)
MarkDown(fl, c, vec, F) ==
    [n \in Nodes |-> fl[n]
        \cup (IF InVec(vec, n) \/ (UnderVec(vec, n) /\ Present(c, n)) THEN {F} ELSE {})
        \cup (IF OverVec(vec, n) THEN {"CHANGE"} ELSE {})]

(* xml_flag_set(CHANGE) + xml_apply_ancestor(CHANGE) *)
MarkUp(fl, vec) ==
    [n \in Nodes |-> fl[n]
        \cup (IF InVec(vec, n) \/ OverVec(vec, n) THEN {"CHANGE"} ELSE {})]

IsTopmost(n) == n # "top" /\ n # "ax"
OnlyIn(x, y) == LET T(n) == IsTopmost(n) /\ Present(x, n) /\ ~Present(y, n)
                IN SelectSeq(DocOrder, T)
Changed(x, y) == IF x.ax > 0 /\ y.ax > 0 /\ x.ax # y.ax THEN <<"ax">> ELSE <<>>

xml_diff(x0, x1) == [dvec |-> OnlyIn(x0, x1), avec |-> OnlyIn(x1, x0),
                     scvec |-> Changed(x0, x1), tcvec |-> Changed(x0, x1)]

(* b refers to a/ax: it is valid only where a/ax exists. *)
Valid(c) == c.b > 0 => c.ax > 0

generic_validate(c, f) ==
    IF ErrAt(f, "generic_validate") THEN -1
    ELSE IF ~Valid(c) THEN 0 ELSE 1

----------------------------------------------------------------------------
(* Confirmed commit, phase 2 *)

(* The confirmed-commit state; snap remembers, for the properties, what   *)
(* running held when the pending confirmed commit was armed.              *)
CcIdle == [state |-> "IDLE", timer |-> FALSE, snap |-> NoDb]

handle_confirmed_commit(s, xe) ==
    CASE xe = "confirmed" /\ s.cc.state = "IDLE" ->
            LET s1 == xmldb_copy(s, "running", "rollback")
            IN Emit([s1 EXCEPT !.cc = [state |-> "PENDING", timer |-> TRUE,
                                      snap |-> s.db["running"]]],
                    "cc_arm", 0, TRUE)
      [] xe = "confirmed" /\ s.cc.state = "PENDING" ->
            Emit([s EXCEPT !.cc.timer = TRUE], "cc_rearm", 0, TRUE)
      [] xe = "commit" /\ s.cc.state = "PENDING" ->
            LET s1 == xmldb_delete(s, "rollback")
            IN Emit([s1 EXCEPT !.cc = CcIdle], "cc_cancel", 0, TRUE)
      [] OTHER -> s

----------------------------------------------------------------------------
(* Transaction engine *)

(* The value of an expression, computed once and named. *)
The(S) == CHOOSE x \in S : TRUE

(* validate_common from the begin callbacks on: begin, generic validation, *)
(* validate, complete.                                                     *)
validate_common_callbacks(s, t, f) ==
    The({
      IF b.ret < 0 THEN Out(b.s, t, -1)
      ELSE The({
        IF g < 1 THEN Out(Emit(b.s, "generic_validate", 0, FALSE), t, g)
        ELSE The({
          IF v.ret < 0 THEN Out(v.s, t, -1)
          ELSE The({
            Out(c.s, t, IF c.ret < 0 THEN -1 ELSE 1)
            : c \in {plugin_transaction_all(v.s, "complete", f)} })
          : v \in {plugin_transaction_all(
                       Emit(b.s, "generic_validate", 0, TRUE), "validate", f)} })
        : g \in {generic_validate(t.ttree, f)} })
      : b \in {plugin_transaction_all(s, "begin", f)} })

(* validate_common, step 3: the diff of running and db and its marking. *)
validate_common_diff(s2, t2, d, f) ==
    IF ErrAt(f, "xml_diff") THEN Out(s2, t2, -1)
    ELSE The({
      The({
        validate_common_callbacks(
            s3, [t2 EXCEPT !.dvec = df.dvec, !.avec = df.avec,
                           !.scvec = df.scvec, !.tcvec = df.tcvec,
                           !.marked = TRUE,
                           !.sclr = s2.flags["running"], !.tclr = s2.flags[d],
                           !.smark = s3.flags["running"], !.tmark = s3.flags[d]], f)
        : s3 \in {[s2 EXCEPT
                     !.flags["running"] =
                         MarkUp(MarkDown(@, s2.db["running"], df.dvec, "DEL"), df.scvec),
                     !.flags[d] =
                         MarkUp(MarkDown(@, t2.ttree, df.avec, "ADD"), df.tcvec)]} })
      : df \in {xml_diff(s2.db["running"], t2.ttree)} })

(* validate_common, step 2: running read as the source tree. *)
validate_common_src(s1, t1, d, f) ==
    IF ErrAt(f, "get_src") THEN Out(s1, t1, -1)
    ELSE IF InvAt(f, "get_src") THEN Out(s1, t1, 0)
    ELSE The({
      validate_common_diff(s2, t2, d, f)
      : s2 \in {[s1 EXCEPT !.flags["running"] =
                               xml_flag_reset_all(@, {"MARK", "CHANGE"})]},
        t2 \in {[t1 EXCEPT !.src = "running", !.stree = s1.db["running"]]} })

validate_common(s0, d, t0, f) ==
    IF ErrAt(f, "yspec") \/ ErrAt(f, "get_target") THEN Out(s0, t0, -1)
    ELSE IF InvAt(f, "get_target") THEN Out(s0, t0, 0)
    ELSE The({
      validate_common_src(s1, t1, d, f)
      : s1 \in {[s0 EXCEPT !.flags[d] = xml_flag_reset_all(@, {"MARK", "CHANGE"})]},
        t1 \in {[t0 EXCEPT !.target = d, !.ttree = s0.db[d]]} })

(* done: with a failing abort callback turned into an error *)
TransactionDone_abortchecked(s, t, retval, af) ==
    IF ~t.alloc THEN Out(s, t, retval)
    ELSE Out(IF retval < 1 THEN plugin_transaction_abort_all(s, af) ELSE s,
             t, IF retval < 1 /\ af /\ Observed(s.log, "begin") # {} THEN -1 ELSE retval)

(* done: with the abort callbacks called whatever retval is *)
TransactionDone_always(s, t, retval, af) ==
    IF ~t.alloc THEN Out(s, t, retval)
    ELSE Out(plugin_transaction_abort_all(s, af), t, retval)

(* done: with "retval < 0" for "retval < 1" *)
TransactionDone_lt0(s, t, retval, af) ==
    IF ~t.alloc THEN Out(s, t, retval)
    ELSE Out(IF retval < 0 THEN plugin_transaction_abort_all(s, af) ELSE s,
             t, retval)

(* The labels done and fail of candidate_validate and candidate_commit. *)
TransactionDone(s, t, retval, af) ==
    IF ~t.alloc THEN Out(s, t, retval)
    ELSE Out(IF retval < 1 THEN plugin_transaction_abort_all(s, af) ELSE s,
             t, retval)

(* candidate_validate after validate_common has returned ret. *)
candidate_validate_result(s, t, ret, f, af) ==
    IF ret < 0 THEN TransactionDone(s, t, 0, af)
    ELSE IF ret = 0 THEN
        TransactionDone(s, t, IF ErrAt(f, "xml2cbuf") THEN -1 ELSE 0, af)
    ELSE IF ErrAt(f, "get0_clear") THEN TransactionDone(s, t, -1, af)
    ELSE The({
      TransactionDone(e.s, t, 1, af)
      : e \in {plugin_transaction_all(
                   xmldb_get0_clear(xmldb_get0_clear(s, t.src), t.target),
                   "end", f)} })

candidate_validate(s0, d, f, af) ==
    IF ErrAt(f, "transaction_new") THEN TransactionDone(s0, NullTd, -1, af)
    ELSE The({
      candidate_validate_result(vc.s, vc.td, vc.ret, f, af)
      : vc \in {validate_common(s0, d, NewTd, f)} })

(* commit_store with the result of the end callbacks read *)
commit_store_endchecked(s0, t, d, f, af) ==
    IF ErrAt(f, "get0_clear") THEN TransactionDone(s0, t, -1, af)
    ELSE The({
      IF ErrAt(f, "xmldb_copy") THEN TransactionDone(s1, t, -1, af)
      ELSE The({
        The({
          TransactionDone(e.s, [t EXCEPT !.dvec = <<>>, !.scvec = <<>>],
                          IF e.ret < 0 THEN -1 ELSE 1, af)
          : e \in {plugin_transaction_all(xmldb_modified_set(s2, d, 0), "end", f)} })
        : s2 \in {Emit(xmldb_copy(s1, d, "running"), "xmldb_copy", 0, TRUE)} })
      : s1 \in {xmldb_get0_clear(xmldb_get0_clear(s0, t.target), t.src)} })

(* commit_store without the reset of the dirty bit *)
commit_store_nodirty(s0, t, d, f, af) ==
    IF ErrAt(f, "get0_clear") THEN TransactionDone(s0, t, -1, af)
    ELSE The({
      IF ErrAt(f, "xmldb_copy") THEN TransactionDone(s1, t, -1, af)
      ELSE The({
        The({
          TransactionDone(e.s, [t EXCEPT !.dvec = <<>>, !.scvec = <<>>], 1, af)
          : e \in {plugin_transaction_all(s2, "end", f)} })
        : s2 \in {Emit(xmldb_copy(s1, d, "running"), "xmldb_copy", 0, TRUE)} })
      : s1 \in {xmldb_get0_clear(xmldb_get0_clear(s0, t.target), t.src)} })

(* commit_store without the copy of db to running *)
commit_store_nocopy(s0, t, d, f, af) ==
    IF ErrAt(f, "get0_clear") THEN TransactionDone(s0, t, -1, af)
    ELSE The({
      The({
        TransactionDone(e.s, [t EXCEPT !.dvec = <<>>, !.scvec = <<>>], 1, af)
        : e \in {plugin_transaction_all(xmldb_modified_set(s1, d, 0), "end", f)} })
      : s1 \in {xmldb_get0_clear(xmldb_get0_clear(s0, t.target), t.src)} })

(* candidate_commit from "Clear cached trees" to "retval = 1" *)
commit_store(s0, t, d, f, af) ==
    IF ErrAt(f, "get0_clear") THEN TransactionDone(s0, t, -1, af)
    ELSE The({
      IF ErrAt(f, "xmldb_copy") THEN TransactionDone(s1, t, -1, af)
      ELSE The({
        The({
          TransactionDone(e.s, [t EXCEPT !.dvec = <<>>, !.scvec = <<>>], 1, af)
          : e \in {plugin_transaction_all(xmldb_modified_set(s2, d, 0), "end", f)} })
        : s2 \in {Emit(xmldb_copy(s1, d, "running"), "xmldb_copy", 0, TRUE)} })
      : s1 \in {xmldb_get0_clear(xmldb_get0_clear(s0, t.target), t.src)} })

(* candidate_commit_apply with the result of the commit callbacks unread *)
candidate_commit_apply_nocheck(s0, t, d, f, af) ==
    The({
      The({
        IF cd.ret < 0 THEN TransactionDone(cd.s, t, -1, af)
        ELSE commit_store(cd.s, t, d, f, af)
        : cd \in {plugin_transaction_all(c.s, "commit_done", f)} })
      : c \in {plugin_transaction_all(s0, "commit", f)} })

(* candidate_commit_apply with db copied to running before the callbacks *)
candidate_commit_apply_copyfirst(s0, t, d, f, af) ==
    The({
      IF c.ret < 0 THEN TransactionDone(c.s, t, -1, af)
      ELSE The({
        IF cd.ret < 0 THEN TransactionDone(cd.s, t, -1, af)
        ELSE The({
          TransactionDone(e.s, [t EXCEPT !.dvec = <<>>, !.scvec = <<>>], 1, af)
          : e \in {plugin_transaction_all(
                       xmldb_modified_set(
                           xmldb_get0_clear(xmldb_get0_clear(cd.s, t.target), t.src),
                           d, 0),
                       "end", f)} })
        : cd \in {plugin_transaction_all(c.s, "commit_done", f)} })
      : c \in {plugin_transaction_all(
                   Emit(xmldb_copy(s0, d, "running"), "xmldb_copy", 0, TRUE),
                   "commit", f)} })

(* candidate_commit from the commit callbacks on *)
candidate_commit_apply(s0, t, d, f, af) ==
    The({
      IF c.ret < 0 THEN TransactionDone(c.s, t, -1, af)
      ELSE The({
        IF cd.ret < 0 THEN TransactionDone(cd.s, t, -1, af)
        ELSE commit_store(cd.s, t, d, f, af)
        : cd \in {plugin_transaction_all(c.s, "commit_done", f)} })
      : c \in {plugin_transaction_all(s0, "commit", f)} })

(* candidate_commit_result with the second phase run without a request *)
candidate_commit_result_noxe(s, t, ret, xe, d, f, af) ==
    IF ret < 0 \/ ErrAt(f, "yspec2") THEN TransactionDone(s, t, -1, af)
    ELSE The({
      IF phase2 /\ ErrAt(f, "confirmed_commit")
      THEN TransactionDone(Emit(s, "phase2", 0, FALSE), t, -1, af)
      ELSE The({
        IF ret = 0 THEN
            TransactionDone(s1, t, IF ErrAt(f, "xml2cbuf") THEN -1 ELSE 0, af)
        ELSE candidate_commit_apply(s1, t, d, f, af)
        : s1 \in {IF phase2
                  THEN handle_confirmed_commit(Emit(s, "phase2", 0, TRUE), xe)
                  ELSE s} })
      : phase2 \in {feature /\ s.cc.state # "ROLLBACK"} })

(* candidate_commit after validate_common has returned ret: the second    *)
(* phase of confirmed commit comes before ret is looked at.               *)
candidate_commit_result(s, t, ret, xe, d, f, af) ==
    IF ret < 0 \/ ErrAt(f, "yspec2") THEN TransactionDone(s, t, -1, af)
    ELSE The({
      IF phase2 /\ ErrAt(f, "confirmed_commit")
      THEN TransactionDone(Emit(s, "phase2", 0, FALSE), t, -1, af)
      ELSE The({
        IF ret = 0 THEN
            TransactionDone(s1, t, IF ErrAt(f, "xml2cbuf") THEN -1 ELSE 0, af)
        ELSE candidate_commit_apply(s1, t, d, f, af)
        : s1 \in {IF phase2
                  THEN handle_confirmed_commit(Emit(s, "phase2", 0, TRUE), xe)
                  ELSE s} })
      : phase2 \in {feature /\ s.cc.state # "ROLLBACK" /\ xe # "NULL"} })

(* candidate_commit with the candidate datastore for its db argument *)
candidate_commit_candidate(s0, xe, d, f, af) ==
    IF ErrAt(f, "transaction_new") THEN TransactionDone(s0, NullTd, -1, af)
    ELSE The({
      candidate_commit_result(vc.s, vc.td, vc.ret, xe, "candidate", f, af)
      : vc \in {validate_common(s0, "candidate", NewTd, f)} })

candidate_commit(s0, xe, d, f, af) ==
    IF ErrAt(f, "transaction_new") THEN TransactionDone(s0, NullTd, -1, af)
    ELSE The({
      candidate_commit_result(vc.s, vc.td, vc.ret, xe, d, f, af)
      : vc \in {validate_common(s0, d, NewTd, f)} })

(* What the upgrade callbacks make of the tree read from the startup     *)
(* datastore: nothing, a node inserted, a node deleted.                   *)
Upgrades == {"none", "insert_a", "delete_b"}
apply_upgrade(c, up) ==
    CASE up = "insert_a" -> IF c.ax = 0 THEN [c EXCEPT !.ax = 1] ELSE c
      [] up = "delete_b" -> [c EXCEPT !.b = 0]
      [] OTHER -> c

xml_child_nr(c) == Cardinality({n \in Nodes : Parent[n] = "top" /\ n # "top" /\ Present(c, n)})
(* TopChildren with every element of the tree, not only the children of *)
(* the top node                                                         *)
TopChildren_all(c) == LET T(n) == n # "top" /\ Present(c, n)
                      IN SelectSeq(DocOrder, T)

TopChildren(c) == LET T(n) == n # "top" /\ Parent[n] = "top" /\ Present(c, n)
                  IN SelectSeq(DocOrder, T)

(* The result of a library routine that can fail or find the tree invalid. *)
StepResult(f, step) ==
    IF ErrAt(f, step) THEN -1 ELSE IF InvAt(f, step) THEN 0 ELSE 1

(* startup_common from the begin callbacks on. *)
startup_common_callbacks(s, t, f) ==
    The({
      IF b.ret < 0 THEN Out(b.s, t, -1)
      ELSE The({
        IF g < 0 THEN Out(Emit(b.s, "generic_validate", 0, FALSE), t, -1)
        ELSE IF g = 0 THEN Out(Emit(b.s, "generic_validate", 0, FALSE), t,
                               IF ErrAt(f, "xml2cbuf") THEN -1 ELSE 0)
        ELSE The({
          IF v.ret < 0 THEN Out(v.s, t, -1)
          ELSE The({
            Out(c.s, t, IF c.ret < 0 THEN -1 ELSE 1)
            : c \in {plugin_transaction_all(v.s, "complete", f)} })
          : v \in {plugin_transaction_all(
                       Emit(b.s, "generic_validate", 0, TRUE), "validate", f)} })
        : g \in {generic_validate(t.ttree, f)} })
      : b \in {plugin_transaction_all(s, "begin", f)} })

(* startup_common_tree with a tree holding state data let through *)
startup_common_tree_statedata(s3, t0, d, xt, f) ==
    The({
      IF by < 0 THEN Out(Emit(s3, "bind_yang", 0, FALSE), t0, -1)
      ELSE IF by = 0 THEN
          Out(Emit(Emit(s3, "bind_yang", 0, FALSE), "cbret", 0, TRUE), t0, 0)
      ELSE The({
        IF nc < 0 THEN Out(Emit(s4, "non_config", 0, FALSE), t0, -1)
        ELSE IF ErrAt(f, "xml_sort") THEN Out(Emit(s4, "non_config", 0, TRUE), t0, -1)
        ELSE The({
          The({
            startup_common_callbacks(
                s6, [t0 EXCEPT !.target = d, !.ttree = xt, !.avec = av,
                               !.marked = TRUE, !.tclr = s3.flags[d],
                               !.tmark = s6.flags[d]], f)
            : s6 \in {Emit([s4 EXCEPT
                              !.log = Append(@, Ev(s4, "non_config", 0, TRUE)),
                              !.flags[d] =
                                 [n \in Nodes |->
                                    @[n] \cup
                                    (IF InVec(av, n)
                                        \/ (UnderVec(av, n) /\ Present(xt, n))
                                     THEN {"ADD"} ELSE {})]],
                           "xml_sort", 0, TRUE)} })
          : av \in {TopChildren(xt)} })
        : nc \in {StepResult(f, "non_config")},
          s4 \in {Emit(s3, "bind_yang", 0, TRUE)} })
      : by \in {StepResult(f, "bind_yang")} })

(* startup_common on a non-empty tree xt: binding, the state-data check,  *)
(* sorting, and every top-level child handed over as added.               *)
startup_common_tree(s3, t0, d, xt, f) ==
    The({
      IF by < 0 THEN Out(Emit(s3, "bind_yang", 0, FALSE), t0, -1)
      ELSE IF by = 0 THEN
          Out(Emit(Emit(s3, "bind_yang", 0, FALSE), "cbret", 0, TRUE), t0, 0)
      ELSE The({
        IF nc < 0 THEN Out(Emit(s4, "non_config", 0, FALSE), t0, -1)
        ELSE IF nc = 0 THEN
            Out(Emit(Emit(s4, "non_config", 0, FALSE), "cbret", 0, TRUE), t0, 0)
        ELSE IF ErrAt(f, "xml_sort") THEN Out(Emit(s4, "non_config", 0, TRUE), t0, -1)
        ELSE The({
          The({
            startup_common_callbacks(
                s6, [t0 EXCEPT !.target = d, !.ttree = xt, !.avec = av,
                               !.marked = TRUE, !.tclr = s3.flags[d],
                               !.tmark = s6.flags[d]], f)
            : s6 \in {Emit([s4 EXCEPT
                              !.log = Append(@, Ev(s4, "non_config", 0, TRUE)),
                              !.flags[d] =
                                 [n \in Nodes |->
                                    @[n] \cup
                                    (IF InVec(av, n)
                                        \/ (UnderVec(av, n) /\ Present(xt, n))
                                     THEN {"ADD"} ELSE {})]],
                           "xml_sort", 0, TRUE)} })
          : av \in {TopChildren(xt)} })
        : nc \in {StepResult(f, "non_config")},
          s4 \in {Emit(s3, "bind_yang", 0, TRUE)} })
      : by \in {StepResult(f, "bind_yang")} })

(* clixon_module_upgrade: it returns 0 on failure, with or without a      *)
(* reason left in cbret.                                                  *)
module_upgrade(s, f, reason) ==
    The({
      IF StepResult(f, "module_upgrade") = 0 /\ reason
      THEN Emit(s2, "cbret", 0, TRUE) ELSE s2
      : s2 \in {Emit(s, "module_upgrade", 0, StepResult(f, "module_upgrade") = 1)} })

(* The length of cbret: what the call has written to it so far. *)
cbuf_len(s) == Cardinality({i \in 1..Len(s.log) : s.log[i].ev = "cbret"})

(* startup_common_upgrade without the reason supplied when the module     *)
(* upgrade has left none                                                  *)
startup_common_upgrade_nofallback(s1, t0, d, f, up, modstate, reason) ==
    IF ErrAt(f, "datastore_upgrade")
    THEN Out(Emit(s1, "datastore_upgrade", 0, FALSE), t0, -1)
    ELSE The({
      IF mu < 0 THEN Out(s3, t0, -1)
      ELSE IF mu = 0 THEN
          Out(s3, t0, 0)
      ELSE IF xml_child_nr(xt) = 0 THEN
          Out(s3, [t0 EXCEPT !.target = d, !.ttree = xt], 1)
      ELSE startup_common_tree(s3, t0, d, xt, f)
      : xt \in {apply_upgrade(s1.db[d], up)},
        mu \in {IF modstate THEN StepResult(f, "module_upgrade") ELSE 1},
        s3 \in {IF modstate
                THEN module_upgrade(Emit(s1, "datastore_upgrade", 0, TRUE), f, reason)
                ELSE Emit(s1, "datastore_upgrade", 0, TRUE)} })

(* startup_common after the tree has been read: the upgrade callbacks and *)
(* the shortcut for an empty tree.                                        *)
startup_common_upgrade(s1, t0, d, f, up, modstate, reason) ==
    IF ErrAt(f, "datastore_upgrade")
    THEN Out(Emit(s1, "datastore_upgrade", 0, FALSE), t0, -1)
    ELSE The({
      IF mu < 0 THEN Out(s3, t0, -1)
      ELSE IF mu = 0 THEN
          Out(IF cbuf_len(s3) = 0 THEN Emit(s3, "cbret", 0, TRUE) ELSE s3, t0, 0)
      ELSE IF xml_child_nr(xt) = 0 THEN
          Out(s3, [t0 EXCEPT !.target = d, !.ttree = xt], 1)
      ELSE startup_common_tree(s3, t0, d, xt, f)
      : xt \in {apply_upgrade(s1.db[d], up)},
        mu \in {IF modstate THEN StepResult(f, "module_upgrade") ELSE 1},
        s3 \in {IF modstate
                THEN module_upgrade(Emit(s1, "datastore_upgrade", 0, TRUE), f, reason)
                ELSE Emit(s1, "datastore_upgrade", 0, TRUE)} })

startup_common(s0, d, t0, f, up, modstate, reason) ==
    IF modstate /\ ErrAt(f, "modstate_new") THEN Out(s0, t0, -1)
    ELSE IF ErrAt(f, "get_target") THEN Out(s0, t0, -1)
    ELSE IF InvAt(f, "get_target") THEN Out(s0, t0, IF ErrAt(f, "xml2cbuf") THEN -1 ELSE 0)
    ELSE IF ErrAt(f, "yspec") THEN Out(s0, t0, -1)
    ELSE The({
      startup_common_upgrade(s1, t0, d, f, up, modstate, reason)
      : s1 \in {Emit([s0 EXCEPT !.flags[d] = xml_flag_reset_all(@, {"MARK", "CHANGE"})],
                     "xmldb_get0", 0, TRUE)} })

(* startup_validate after startup_common has returned ret. *)
startup_validate_result(s, t, ret, f, af) ==
    IF ret < 1 THEN Out(plugin_transaction_abort_all(s, af), t, ret)
    ELSE The({
      IF ErrAt(f, "get0_clear") THEN Out(e.s, t, -1)
      ELSE Out(xmldb_get0_clear(e.s, t.target), t, 1)
      : e \in {plugin_transaction_all(s, "end", f)} })

startup_validate(s0, d, f, af, up, modstate, reason) ==
    IF ErrAt(f, "transaction_new") THEN Out(s0, NullTd, -1)
    ELSE The({
      startup_validate_result(sc.s, sc.td, sc.ret, f, af)
      : sc \in {startup_common(s0, d, NewTd, f, up, modstate, reason)} })

(* startup_commit, step 8: running deleted, created and written. *)
startup_commit_store(s0, t, f, af) ==
    IF ErrAt(f, "get0_clear") THEN TransactionDone(s0, t, -1, af)
    ELSE The({
      IF xmldb_exists(s1, "running") /\ ErrAt(f, "xmldb_delete")
      THEN TransactionDone(s1, t, -1, af)
      ELSE The({
        IF ErrAt(f, "xmldb_create") THEN TransactionDone(s2, t, -1, af)
        ELSE The({
          IF ErrAt(f, "xmldb_put") THEN TransactionDone(s3, t, -1, af)
          ELSE IF InvAt(f, "xmldb_put") THEN TransactionDone(s3, t, 0, af)
          ELSE The({
            TransactionDone(e.s, t, 1, af)
            : e \in {plugin_transaction_all(
                         Emit(xmldb_write(s3, "running", t.ttree), "xmldb_put", 0, TRUE),
                         "end", f)} })
          : s3 \in {xmldb_create(s2, "running")} })
        : s2 \in {IF xmldb_exists(s1, "running")
                  THEN xmldb_delete(s1, "running") ELSE s1} })
      : s1 \in {xmldb_get0_clear(s0, t.target)} })

(* startup_commit after startup_common has returned ret. *)
startup_commit_result(s, t, ret, f, af) ==
    IF ret < 1 THEN TransactionDone(s, t, ret, af)
    ELSE The({
      IF c.ret < 0 THEN TransactionDone(c.s, t, -1, af)
      ELSE The({
        IF cd.ret < 0 THEN TransactionDone(cd.s, t, -1, af)
        ELSE startup_commit_store(cd.s, t, f, af)
        : cd \in {plugin_transaction_all(c.s, "commit_done", f)} })
      : c \in {plugin_transaction_all(s, "commit", f)} })

startup_commit(s0, d, f, af, up, modstate, reason) ==
    IF d = "running" \/ ErrAt(f, "transaction_new") THEN Out(s0, NullTd, -1)
    ELSE The({
      startup_commit_result(sc.s, sc.td, sc.ret, f, af)
      : sc \in {startup_common(s0, d, NewTd, f, up, modstate, reason)} })

(* The plugin's reset callback: absent, or returning ret after writing xml *)
(* to the freshly reset tmp datastore.                                     *)
ResetInputs == {[has |-> FALSE, ret |-> 0, xml |-> EmptyContent]}
               \cup [has : {TRUE}, ret : -1..1,
                     xml : {EmptyContent, [ax |-> 1, b |-> 0]}]

(* from_client_restart_one_callbacks with begin delivered to every plugin *)
from_client_restart_one_callbacks_all(s, t, cp, f, retval) ==
    The({
      IF b.ret < 0 THEN Out(b.s, t, 0)
      ELSE The({
        IF g < 0 THEN Out(Emit(b.s, "generic_validate", 0, FALSE), t, retval)
        ELSE IF g = 0 THEN Out(Emit(b.s, "generic_validate", 0, FALSE), t,
                               IF ErrAt(f, "xml2cbuf") THEN retval ELSE 0)
        ELSE The({
          IF v.ret < 0 THEN Out(v.s, t, 0)
          ELSE The({
            IF c.ret < 0 THEN Out(c.s, t, 0)
            ELSE The({
              IF cm.ret < 0 THEN Out(cm.s, t, 0)
              ELSE The({
                IF cd.ret < 0 THEN Out(cd.s, t, 0)
                ELSE The({
                  Out(e.s, t, IF e.ret < 0 THEN 0 ELSE 1)
                  : e \in {plugin_transaction_one(cd.s, cp, "end", f)} })
                : cd \in {plugin_transaction_one(cm.s, cp, "commit_done", f)} })
              : cm \in {plugin_transaction_one(c.s, cp, "commit", f)} })
            : c \in {plugin_transaction_one(v.s, cp, "complete", f)} })
          : v \in {plugin_transaction_one(
                       Emit(b.s, "generic_validate", 0, TRUE), cp, "validate", f)} })
        : g \in {generic_validate(t.ttree, f)} })
      : b \in {plugin_transaction_all(s, "begin", f)} })

(* from_client_restart_one, steps 4 and 5: the callbacks of the one       *)
(* plugin; a failing callback leaves through fail, an error through done  *)
(* with retval as the reset callback left it.                             *)
from_client_restart_one_callbacks(s, t, cp, f, retval) ==
    The({
      IF b.ret < 0 THEN Out(b.s, t, 0)
      ELSE The({
        IF g < 0 THEN Out(Emit(b.s, "generic_validate", 0, FALSE), t, retval)
        ELSE IF g = 0 THEN Out(Emit(b.s, "generic_validate", 0, FALSE), t,
                               IF ErrAt(f, "xml2cbuf") THEN retval ELSE 0)
        ELSE The({
          IF v.ret < 0 THEN Out(v.s, t, 0)
          ELSE The({
            IF c.ret < 0 THEN Out(c.s, t, 0)
            ELSE The({
              IF cm.ret < 0 THEN Out(cm.s, t, 0)
              ELSE The({
                IF cd.ret < 0 THEN Out(cd.s, t, 0)
                ELSE The({
                  Out(e.s, t, IF e.ret < 0 THEN 0 ELSE 1)
                  : e \in {plugin_transaction_one(cd.s, cp, "end", f)} })
                : cd \in {plugin_transaction_one(cm.s, cp, "commit_done", f)} })
              : cm \in {plugin_transaction_one(c.s, cp, "commit", f)} })
            : c \in {plugin_transaction_one(v.s, cp, "complete", f)} })
          : v \in {plugin_transaction_one(
                       Emit(b.s, "generic_validate", 0, TRUE), cp, "validate", f)} })
        : g \in {generic_validate(t.ttree, f)} })
      : b \in {plugin_transaction_one(s, cp, "begin", f)} })

(* from_client_restart_one, step 3: running is the target, tmp the source. *)
from_client_restart_one_diff(s2, cp, f, retval) ==
    IF ErrAt(f, "transaction_new") THEN Out(s2, NullTd, retval)
    ELSE IF ErrAt(f, "get_target") THEN Out(s2, NewTd, retval)
    ELSE The({
      IF va < 0 THEN Out(s2, t1, retval)
      ELSE IF va = 0 THEN Out(s2, t1, IF ErrAt(f, "xml2cbuf") THEN retval ELSE 0)
      ELSE IF ErrAt(f, "get_src") THEN Out(s2, t1, retval)
      ELSE IF ErrAt(f, "xml_diff")
      THEN Out(s2, [t1 EXCEPT !.src = "tmp", !.stree = s2.db["tmp"]], retval)
      ELSE The({
        The({
          from_client_restart_one_callbacks(
              s3,
              [t1 EXCEPT !.src = "tmp", !.stree = s2.db["tmp"],
                         !.dvec = df.dvec, !.avec = df.avec,
                         !.scvec = df.scvec, !.tcvec = df.tcvec,
                         !.marked = TRUE,
                         !.sclr = s2.flags["tmp"], !.tclr = s2.flags["running"],
                         !.smark = s3.flags["tmp"], !.tmark = s3.flags["running"]],
              cp, f, retval)
          : s3 \in {[s2 EXCEPT
                       !.flags["tmp"] =
                           MarkUp(MarkDown(@, s2.db["tmp"], df.dvec, "DEL"), df.scvec),
                       !.flags["running"] =
                           MarkUp(MarkDown(@, t1.ttree, df.avec, "ADD"), df.tcvec)]} })
        : df \in {xml_diff(s2.db["tmp"], t1.ttree)} })
      : t1 \in {[NewTd EXCEPT !.target = "running", !.ttree = s2.db["running"]]},
        va \in {IF ErrAt(f, "validate_all_top") THEN -1
                ELSE IF ~Valid(s2.db["running"]) THEN 0 ELSE 1} })

from_client_restart_one(s0, cp, f, rs) ==
    IF ErrAt(f, "db_reset") THEN Out(s0, NullTd, -1)
    ELSE The({
      IF rs.has /\ ErrAt(f, "context_check1") THEN Out(s1, NullTd, -1)
      ELSE The({
        IF rs.has /\ rs.ret < 0 THEN Out(s2, NullTd, retval)
        ELSE IF rs.has /\ ErrAt(f, "context_check2") THEN Out(s2, NullTd, retval)
        ELSE from_client_restart_one_diff(s2, cp, f, retval)
        : s2 \in {IF rs.has
                  THEN Emit(xmldb_write(s1, "tmp", rs.xml), "reset", cp, rs.ret >= 0)
                  ELSE s1},
          retval \in {IF rs.has THEN rs.ret ELSE -1} })
      : s1 \in {xmldb_db_reset(s0, "tmp")} })

(* load_failsafe_commit without the restoring copy of tmp to running *)
load_failsafe_commit_norestore(s2, f, af, rf) ==
    The({
      Out(r.s, r.td, IF r.ret = 1 THEN 0 ELSE -1)
      : r \in {candidate_commit(s2, "NULL", "failsafe", f, af)} })

(* load_failsafe: running is backed up to tmp and reset, failsafe is       *)
(* committed, and running is restored from tmp unless the commit          *)
(* returned 1; rf tells that this restoring copy fails.                   *)
load_failsafe_commit(s2, f, af, rf) ==
    The({
      IF r.ret = 1 THEN Out(r.s, r.td, 0)
      ELSE IF rf THEN Out(Emit(r.s, "restore", 0, FALSE), r.td, -1)
      ELSE Out(Emit(xmldb_copy(r.s, "tmp", "running"), "restore", 0, TRUE), r.td, -1)
      : r \in {candidate_commit(s2, "NULL", "failsafe", f, af)} })

(* load_failsafe without the backup of running to tmp *)
load_failsafe_nobackup(s0, f, af, rf) ==
    IF ErrAt(f, "xmldb_exists") \/ ~xmldb_exists(s0, "failsafe")
    THEN Out(s0, NullTd, -1)
    ELSE IF ErrAt(f, "db_reset") THEN Out(s0, NullTd, -1)
    ELSE The({
      load_failsafe_commit(s2, f, af, rf)
      : s2 \in {Emit(xmldb_db_reset(s0, "running"), "db_reset", 0, TRUE)} })

load_failsafe(s0, f, af, rf) ==
    IF ErrAt(f, "xmldb_exists") \/ ~xmldb_exists(s0, "failsafe")
    THEN Out(s0, NullTd, -1)
    ELSE IF ErrAt(f, "backup_copy") THEN Out(s0, NullTd, -1)
    ELSE The({
      IF ErrAt(f, "db_reset") THEN Out(s1, NullTd, -1)
      ELSE The({
        load_failsafe_commit(s2, f, af, rf)
        : s2 \in {Emit(xmldb_db_reset(s1, "running"), "db_reset", 0, TRUE)} })
      : s1 \in {Emit(xmldb_copy(s0, "running", "tmp"), "backup", 0, TRUE)} })

(* from_client_confirmed_commit, the first phase of confirmed commit: a   *)
(* valid confirming commit that carries no <confirmed/> ends the pending  *)
(* confirmed commit and is answered at once (0); otherwise the commit is  *)
(* to go on (1).                                                          *)
from_client_confirmed_commit(s, xe, valid, f) ==
    IF ErrAt(f, "confirmed_commit1") THEN [s |-> s, ret |-> -1]
    ELSE IF valid /\ s.cc.state = "PENDING" /\ xe = "commit"
    THEN [s |-> Emit(Emit([xmldb_delete(s, "rollback") EXCEPT !.cc = CcIdle],
                          "cc_confirm", 0, TRUE), "reply_ok", 0, TRUE),
          ret |-> 0]
    ELSE [s |-> s, ret |-> 1]

(* from_client_commit_locked without the check of the lock *)
from_client_commit_locked_nocheck(s, xe, myid, iddb, f, af) ==
    The({
      Out(Emit(r.s, CASE r.ret < 0 -> "reply_failed"
                      [] r.ret = 0 -> "reply_invalid"
                      [] OTHER -> "reply_ok", 0, TRUE), r.td, 0)
      : r \in {candidate_commit(Emit(s, "candidate_commit", 0, TRUE),
                                 xe, "candidate", f, af)} })

(* from_client_commit from the check of the lock on running on; iddb is   *)
(* the session holding the lock, 0 if there is none.                      *)
from_client_commit_locked(s, xe, myid, iddb, f, af) ==
    IF iddb # 0 /\ myid # iddb
    THEN IF ErrAt(f, "in_use") THEN Out(s, NullTd, -1)
         ELSE Out(Emit(s, "reply_in_use", 0, TRUE), NullTd, 0)
    ELSE The({
      Out(Emit(r.s, CASE r.ret < 0 -> "reply_failed"
                      [] r.ret = 0 -> "reply_invalid"
                      [] OTHER -> "reply_ok", 0, TRUE), r.td, 0)
      : r \in {candidate_commit(Emit(s, "candidate_commit", 0, TRUE),
                                 xe, "candidate", f, af)} })

from_client_commit(s0, xe, myid, iddb, valid, f, af) ==
    IF ErrAt(f, "rpc_yspec") THEN Out(s0, NullTd, -1)
    ELSE IF ~feature THEN from_client_commit_locked(s0, xe, myid, iddb, f, af)
    ELSE The({
      IF p1.ret < 0 THEN Out(p1.s, NullTd, -1)
      ELSE IF p1.ret = 0 THEN Out(p1.s, NullTd, 0)
      ELSE from_client_commit_locked(p1.s, xe, myid, iddb, f, af)
      : p1 \in {from_client_confirmed_commit(s0, xe, valid, f)} })

(* from_client_discard_changes without the test of the lock *)
from_client_discard_changes_nolock(s, myid, iddb, f) ==
    IF ErrAt(f, "xmldb_copy") THEN Out(Emit(s, "reply_failed", 0, TRUE), NullTd, 0)
    ELSE Out(Emit(xmldb_modified_set(xmldb_copy(s, "running", "candidate"),
                                     "candidate", 0),
                  "reply_ok", 0, TRUE), NullTd, 0)

(* from_client_discard_changes; iddb is the session holding the lock on   *)
(* candidate, 0 if there is none.  The lock-denied reply carries iddb.    *)
from_client_discard_changes(s, myid, iddb, f) ==
    IF iddb # 0 /\ myid # iddb
    THEN IF ErrAt(f, "in_use") THEN Out(s, NullTd, -1)
         ELSE Out(Emit(s, "reply_lock_denied", iddb, TRUE), NullTd, 0)
    ELSE IF ErrAt(f, "xmldb_copy")
    THEN Out(Emit(s, "reply_failed", 0, TRUE), NullTd, 0)
    ELSE Out(Emit(xmldb_modified_set(xmldb_copy(s, "running", "candidate"),
                                     "candidate", 0),
                  "reply_ok", 0, TRUE), NullTd, 0)

(* The rollback timer of a pending confirmed commit fires: the state      *)
(* becomes ROLLBACK and the rollback store is committed; on success the   *)
(* state becomes IDLE, on failure the failsafe configuration is loaded.   *)
rollback_timer(s0, f, af, f2, rf) ==
    The({
      IF r.ret = 1 THEN Out([r.s EXCEPT !.cc = CcIdle], r.td, 1)
      ELSE The({
        Out(lf.s, lf.td, IF lf.ret = 0 THEN 0 ELSE -1)
        : lf \in {load_failsafe(r.s, f2, af, rf)} })
      : r \in {candidate_commit(
                   Emit([s0 EXCEPT !.cc.state = "ROLLBACK", !.cc.timer = FALSE],
                        "timer", 0, TRUE),
                   "NULL", "rollback", f, af)} })

----------------------------------------------------------------------------
(* The backend as a state machine *)

(* running starts as a valid configuration: the empty one or a full one;  *)
(* candidate, startup and failsafe start from one sample content, any     *)
(* content at all, where the empty sample stands for a backend that has   *)
(* no failsafe datastore.                                                 *)
RunningSamples == {EmptyContent, [ax |-> 1, b |-> 1]}
CommitDbs == {"candidate"}
FailsafeOf(c) == IF c = EmptyContent THEN NoDb ELSE c

(* What is kept of a call for the properties: its arguments, its result,  *)
(* and the datastores and the confirmed-commit state it started from.     *)
NoCall == [name |-> "none", db |-> "NULL", ret |-> 0, f |-> NoFault,
           run0 |-> NoDb, db0 |-> NoDb, dirty0 |-> 0, cp |-> 0,
           xe |-> "NULL", dbs0 |-> [d \in DbNames |-> NoDb], cc0 |-> CcIdle,
           myid |-> 0, iddb |-> 0]

(* The changelog upgrader is not part of a backend transaction. *)
NoCl == [pc |-> "none"]
(* nor are the XML printer, the debug log and the namespace sockets *)
NoIo == [pc |-> "none"]
NoDbg == [pc |-> "none"]
NoNetns == [pc |-> "none"]

Init ==
    /\ \E r \in RunningSamples, c \in Contents :
          /\ db = [d \in DbNames |->
                     CASE d = "running" -> r
                       [] d = "candidate" -> c
                       [] d = "startup" -> c
                       [] d = "failsafe" -> FailsafeOf(c)
                       [] OTHER -> NoDb]
          /\ dirty = [d \in DbNames |-> IF d = "candidate" /\ c # r THEN 1 ELSE 0]
    /\ flags = [d \in DbNames |-> Clean]
    /\ cc = CcIdle
    /\ feature \in BOOLEAN
    /\ booted = FALSE
    /\ pc = "idle"
    /\ ncalls = 0
    /\ prev = "none"
    /\ log = <<>>
    /\ td = NullTd
    /\ call = NoCall
    /\ cl = NoCl /\ io = NoIo /\ dbg = NoDbg /\ netns = NoNetns

(* A handler runs from the event loop to its return. *)
Idle == pc = "idle" /\ ncalls < MaxCalls

(* The startup datastore is validated or committed, and the failsafe      *)
(* configuration loaded in its place, while the backend starts, before it *)
(* serves its first client request.                                       *)
BootCalls == {"startup_validate", "startup_commit", "load_failsafe"}
Booting == Idle /\ ~booted

(* The startup datastore is loaded once, as the first thing the backend   *)
(* does.                                                                  *)
Starting == Booting /\ ncalls = 0

FinishRpc(r, name, d, cp, f, xe, myid, iddb) ==
    /\ pc' = "returned"
    /\ UNCHANGED <<cl, io, dbg, netns>>
    /\ ncalls' = ncalls + 1
    /\ db' = r.s.db
    /\ dirty' = r.s.dirty
    /\ flags' = r.s.flags
    /\ cc' = r.s.cc
    /\ log' = r.s.log
    /\ td' = r.td
    /\ call' = [name |-> name, db |-> d, ret |-> r.ret, f |-> f,
                run0 |-> db["running"],
                db0 |-> IF d = "NULL" THEN NoDb ELSE db[d],
                dirty0 |-> IF d = "NULL" THEN 0 ELSE dirty[d], cp |-> cp,
                xe |-> xe, dbs0 |-> db, cc0 |-> cc,
                myid |-> myid, iddb |-> iddb]
    /\ booted' = (name \notin BootCalls)
    /\ UNCHANGED <<feature, prev>>

Finish(r, name, d, cp, f, xe) == FinishRpc(r, name, d, cp, f, xe, 0, 0)

(* The faults a handler can meet are those of the steps it has and of the *)
(* callbacks it calls.                                                    *)
FaultsOf(phases, ps, steps, invs) ==
    {f \in Faults : \/ f.k = "none"
                    \/ f.k = "cb" /\ f.ph \in phases /\ f.p \in ps
                    \/ f.k = "err" /\ f.ph \in steps
                    \/ f.k = "inv" /\ f.ph \in invs}

(* The abort callbacks run only after a fault, and have something to      *)
(* abort only if the fault came after the begin callbacks were reached.   *)
AbortInputs(f, before) ==
    IF f.k = "none" \/ (f.k # "cb" /\ f.ph \in before) THEN {FALSE} ELSE BOOLEAN

ValidatePhases == {"begin", "validate", "complete", "end"}

CommitSteps == {"transaction_new", "yspec", "get_target", "get_src", "xml_diff",
                "generic_validate", "yspec2", "confirmed_commit", "xml2cbuf",
                "get0_clear", "xmldb_copy"}
ValidateSteps == CommitSteps \ {"yspec2", "confirmed_commit", "xmldb_copy"}
BeforeBegin == {"transaction_new", "yspec", "get_target", "get_src", "xml_diff"}
StartupSteps == {"transaction_new", "modstate_new", "get_target", "yspec",
                 "datastore_upgrade", "module_upgrade", "bind_yang", "non_config",
                 "xml_sort", "generic_validate", "xml2cbuf", "get0_clear",
                 "xmldb_delete", "xmldb_create", "xmldb_put"}
StartupBeforeBegin == {"transaction_new", "modstate_new", "get_target", "yspec",
                       "datastore_upgrade", "module_upgrade", "bind_yang",
                       "non_config", "xml_sort"}
StartupStoreSteps == {"xmldb_delete", "xmldb_create", "xmldb_put"}
RestartSteps == {"db_reset", "context_check1", "context_check2", "transaction_new",
                 "get_target", "validate_all_top", "get_src", "xml_diff",
                 "generic_validate", "xml2cbuf"}

(* The faults met by a commit: every fault of the transaction for a       *)
(* commit without a request, and for a commit with one the faults that    *)
(* bear on the second phase of confirmed commit.                          *)
CommitFaults(xe) ==
    IF xe = "NULL"
    THEN FaultsOf(CbPhases, Plugins, CommitSteps, {"get_target", "get_src"})
    ELSE FaultsOf({"commit"}, Plugins, {"confirmed_commit", "xmldb_copy"},
                  {"get_target"})

CandidateCommit ==
    /\ Idle
    /\ \E d \in CommitDbs, xe \in Requests :
      \E f \in CommitFaults(xe) :
      \E af \in AbortInputs(f, BeforeBegin) :
        /\ xmldb_exists(Cur, d)
        /\ \E r \in {candidate_commit(Cur, xe, d, f, af)} :
              Finish(r, "candidate_commit", d, 0, f, xe)

(* The faults met by a validation: every fault for the first call since   *)
(* the backend started, and afterwards those of the validate callbacks    *)
(* and of an invalid candidate.                                           *)
ValidateFaults ==
    IF ncalls = 0
    THEN FaultsOf(ValidatePhases, Plugins, ValidateSteps, {"get_target", "get_src"})
    ELSE FaultsOf({"validate"}, Plugins, {}, {"get_src"})

CandidateValidate ==
    /\ Idle
    /\ \E d \in CommitDbs, f \in ValidateFaults :
      \E af \in AbortInputs(f, BeforeBegin) :
        /\ xmldb_exists(Cur, d)
        /\ \E r \in {candidate_validate(Cur, d, f, af)} :
              Finish(r, "candidate_validate", d, 0, f, "NULL")

StartupDbs == {"startup"}
StartupInv == {"get_target", "module_upgrade", "bind_yang", "non_config", "xmldb_put"}

(* The upgrade callbacks that make a difference to the tree c. *)
UpgradesOf(c) == {up \in Upgrades : up = "none" \/ apply_upgrade(c, up) # c}

(* Whether the module upgrade callback that fails has left a reason.      *)
ReasonInputs(f, modstate) ==
    IF modstate /\ InvAt(f, "module_upgrade") THEN BOOLEAN ELSE {FALSE}

StartupValidate ==
    /\ Starting
    /\ \E d \in StartupDbs,
       f \in FaultsOf(ValidatePhases, Plugins, StartupSteps \ StartupStoreSteps,
                      StartupInv \ StartupStoreSteps),
       modstate \in BOOLEAN :
      \E af \in AbortInputs(f, StartupBeforeBegin), up \in UpgradesOf(db[d]),
         reason \in ReasonInputs(f, modstate) :
        /\ xmldb_exists(Cur, d)
        /\ \E r \in {startup_validate(Cur, d, f, af, up, modstate, reason)} :
              Finish(r, "startup_validate", d, 0, f, "NULL")

StartupCommit ==
    /\ Starting
    /\ \E d \in StartupDbs,
       f \in FaultsOf(CbPhases, Plugins, StartupSteps, StartupInv),
       modstate \in BOOLEAN :
      \E af \in AbortInputs(f, StartupBeforeBegin), up \in UpgradesOf(db[d]),
         reason \in ReasonInputs(f, modstate) :
        /\ xmldb_exists(Cur, d)
        /\ \E r \in {startup_commit(Cur, d, f, af, up, modstate, reason)} :
              Finish(r, "startup_commit", d, 0, f, "NULL")

(* The faults met by a restart: every fault for the first plugin when it  *)
(* has no reset callback or one that writes a configuration and returns   *)
(* 0, and after the first call those of its commit callback; none for the *)
(* other plugins and the other reset callbacks.                           *)
RestartFaults(cp, rs) ==
    IF cp = 1 /\ (~rs.has \/ (rs.ret = 0 /\ rs.xml # EmptyContent))
    THEN IF ncalls = 0 THEN FaultsOf(CbPhases, {cp}, RestartSteps, {})
         ELSE FaultsOf({"commit"}, {cp}, {}, {})
    ELSE {NoFault}

RestartOne ==
    /\ Idle
    /\ \E cp \in Plugins, rs \in ResetInputs :
        \E f \in RestartFaults(cp, rs) :
          \E r \in {from_client_restart_one(Cur, cp, f, rs)} :
            Finish(r, "from_client_restart_one", "tmp", cp, f, "NULL")

FailsafeSteps == (CommitSteps \ {"confirmed_commit"})
                     \cup {"xmldb_exists", "backup_copy", "db_reset"}
FailsafeBeforeBegin == BeforeBegin \cup {"xmldb_exists", "backup_copy", "db_reset"}

(* The restoring copy is reached only by a commit of failsafe that fails. *)
RestoreInputs(f, c) == IF f = NoFault /\ Valid(c) THEN {FALSE} ELSE BOOLEAN

LoadFailsafe ==
    /\ Booting
    /\ \E f \in FaultsOf(CbPhases, Plugins, FailsafeSteps, {"get_target", "get_src"}) :
      \E af \in AbortInputs(f, FailsafeBeforeBegin),
         rf \in RestoreInputs(f, db["failsafe"]) :
        \E r \in {load_failsafe(Cur, f, af, rf)} :
            Finish(r, "load_failsafe", "failsafe", 0, f, "NULL")

(* The faults met by the loading of failsafe that follows a failed        *)
(* rollback.                                                              *)
RollbackFailsafeFaults(f) ==
    IF f = NoFault THEN {NoFault}
    ELSE FaultsOf({"commit"}, {1}, {"db_reset"}, {})

RollbackTimer ==
    /\ Idle
    /\ cc.state = "PENDING" /\ cc.timer
    /\ \E f \in FaultsOf({"begin", "commit", "end"}, Plugins, {"xmldb_copy"},
                         {"get_target"}) :
      \E af \in AbortInputs(f, BeforeBegin), f2 \in RollbackFailsafeFaults(f),
         rf \in RestoreInputs(f, db["failsafe"]) :
        \E r \in {rollback_timer(Cur, f, af, f2, rf)} :
            Finish(r, "rollback_timer", "rollback", 0, f, "NULL")

(* The daemon exits with a fatal status when load_failsafe fails at boot. *)
Exits == call.name = "load_failsafe" /\ call.ret = -1

(* Back in the event loop: the transaction and the reply are gone; what is *)
(* remembered of the call is whether it committed the candidate.           *)
EventLoop ==
    /\ pc = "returned" /\ ncalls < MaxCalls
    /\ ~Exits
    /\ pc' = "idle"
    /\ prev' = IF call.name = "candidate_commit" /\ call.ret = 1
               THEN call.db ELSE "none"
    /\ log' = <<>>
    /\ td' = NullTd
    /\ call' = NoCall
    /\ UNCHANGED <<db, dirty, flags, cc, feature, booted, ncalls, cl, io, dbg, netns>>

(* The sessions of the clients, and whether running is locked: the lock   *)
(* is taken and released outside this file and is an input here.          *)
Sessions == {1, 2}
LockHolders == {0, 1}

(* The faults met by a <commit> request: those of the request itself for  *)
(* a session that finds running unlocked, none for the others.            *)
RpcFaults(myid, iddb) ==
    IF myid = 1 /\ iddb = 0
    THEN FaultsOf({"commit"}, {1}, {"rpc_yspec", "confirmed_commit1"}, {"get_target"})
    ELSE IF myid # iddb /\ iddb # 0
    THEN FaultsOf({}, {}, {"in_use"}, {})
    ELSE {NoFault}

RpcBeforeBegin == BeforeBegin \cup {"rpc_yspec", "confirmed_commit1", "in_use"}

(* Whether the first phase finds a valid confirming commit: the session   *)
(* is the originator or the persist-id matches.                           *)
ValidInputs(xe) ==
    IF feature /\ cc.state = "PENDING" /\ xe = "commit" THEN BOOLEAN ELSE {FALSE}

FromClientCommit ==
    /\ Idle
    /\ \E xe \in Requests \ {"NULL"}, myid \in Sessions, iddb \in LockHolders :
      \E f \in RpcFaults(myid, iddb), valid \in ValidInputs(xe) :
      \E af \in AbortInputs(f, RpcBeforeBegin) :
        /\ xmldb_exists(Cur, "candidate")
        /\ \E r \in {from_client_commit(Cur, xe, myid, iddb, valid, f, af)} :
              FinishRpc(r, "from_client_commit", "candidate", 0, f, xe, myid, iddb)

(* The faults met by a <discard-changes> request. *)
DiscardFaults(myid, iddb) ==
    IF myid # iddb /\ iddb # 0 THEN FaultsOf({}, {}, {"in_use"}, {})
    ELSE FaultsOf({}, {}, {"xmldb_copy"}, {})

FromClientDiscardChanges ==
    /\ Idle
    /\ \E myid \in Sessions, iddb \in LockHolders :
      \E f \in DiscardFaults(myid, iddb) :
        \E r \in {from_client_discard_changes(Cur, myid, iddb, f)} :
            FinishRpc(r, "from_client_discard_changes", "candidate", 0, f, "NULL",
                      myid, iddb)

Next == \/ CandidateCommit
        \/ FromClientCommit
        \/ FromClientDiscardChanges
        \/ CandidateValidate
        \/ StartupValidate
        \/ StartupCommit
        \/ RestartOne
        \/ LoadFailsafe
        \/ RollbackTimer
        \/ EventLoop

Spec == Init /\ [][Next]_vars

-----------------------------------------------------------------------------
(* The changelog upgrader (clixon_xml_changelog.c).                        *)
(*                                                                         *)
(* The XML nodes live in a heap h: kids[x] is the ordered child list of    *)
(* node x, name[x] and body[x] its name and its body text.  Node 0 is the  *)
(* top of the tree to upgrade (xt).  The <new> element of the step s of    *)
(* the changelog entry e is the node Holder(e, s); -1 is the NULL pointer. *)

(* Revisions are dates YYYYMMDD; the years of the model are 1..MaxRev.     *)
MaxRev == 2
(* xml_changelog_upgrade is run at most MaxRuns times on the same tree.    *)
MaxRuns == 2

EntryIdx == 1..2
StepIdx == 1..2
TreeIds == 1..3
Holder(e, s) == 10 * e + 3 * s - 2
NewKids(e, s) == <<Holder(e, s) + 1, Holder(e, s) + 2>>
NewIds == UNION {{Holder(e, s), Holder(e, s) + 1, Holder(e, s) + 2} :
                 e \in EntryIdx, s \in StepIdx}
HeapIds == TreeIds \cup NewIds

(* The date text "y-01-01" as the number YYYYMMDD; a text that is no date  *)
(* (the model's -1) is an error.                                           *)
ys_parse_date_arg(b) ==
    IF b < 0 THEN [ret |-> -1, date |-> 0]
    ELSE [ret |-> 0, date |-> b * 10000 + 101]

(* The revisions a module is upgraded from and to; 0: not in the system.   *)
Revs == {0} \cup {ys_parse_date_arg(y).date : y \in 1..MaxRev}
(* The body of <revfrom> and of <revision>: 0 the element is absent, -1    *)
(* its text is no date, y the date of year y.                              *)
RevBodies == -1..MaxRev

Namespaces == {"m", "n"}

(* ---- the XML object model ---- *)

(* x leaves the child list of its parent *)
xml_rm(h, x) ==
    [h EXCEPT !.kids = [p \in DOMAIN h.kids |->
                          SelectSeq(h.kids[p], LAMBDA y : y # x)]]

(* xc becomes the last child of xp, leaving its former parent *)
xml_addsub(h, xp, xc) ==
    The({ [d EXCEPT !.kids[xp] = Append(@, xc)] : d \in {xml_rm(h, xc)} })

(* x and its subtree leave the tree and are freed *)
xml_purge(h, x) == xml_rm(h, x)

xml_name_set(h, x, str) == [h EXCEPT !.name[x] = str]

(* The nodes below the nodes of s, in document order. *)
RECURSIVE PreOrder(_, _)
PreOrder(h, s) ==
    IF s = <<>> THEN <<>>
    ELSE <<Head(s)>> \o PreOrder(h, h.kids[Head(s)] \o Tail(s))

(* The nodes of the tree of xt. *)
TreeOf(h) == {PreOrder(h, h.kids[0])[i] : i \in 1..Len(PreOrder(h, h.kids[0]))}

(* ---- XPath, as far as the changelog uses it ---- *)

(* where: the path /name, the children of xt called name *)
xpath_vec(h, wxpath) == SelectSeq(h.kids[0], LAMBDA x : h.name[x] = wxpath)

(* dst: the path //name, the first node of xt called name *)
xpath_first(h, dst) ==
    The({ IF m = <<>> THEN -1 ELSE Head(m)
          : m \in {SelectSeq(PreOrder(h, h.kids[0]), LAMBDA x : h.name[x] = dst)} })

(* when: the expression .='text' on the context node xw *)
ctx2boolean(h, xw, whenxpath) == h.body[xw] = whenxpath

(* tag: the string value of "." (the body of xw), of a literal 'b', or of  *)
(* a path that selects no node (the empty string)                          *)
ctx2string(h, xw, tag) ==
    CASE tag = "." -> h.body[xw]
      [] tag = "'b'" -> "b"
      [] OTHER -> ""

(* ---- the operations ---- *)

OpRet(h, ret) == [h |-> h, ret |-> ret]

(* rename: the name set before the tag's string value is looked at *)
changelog_rename_unchecked(h, xw, tag) ==
    IF tag = "NULL" THEN OpRet(h, -1)
    ELSE The({ OpRet(xml_name_set(h, xw, str), IF str = "" THEN -1 ELSE 1)
               : str \in {ctx2string(h, xw, tag)} })

changelog_rename(h, xw, tag) ==
    IF tag = "NULL" THEN OpRet(h, -1)
    ELSE The({ IF str = "" THEN OpRet(h, -1)
               ELSE OpRet(xml_name_set(h, xw, str), 1)
               : str \in {ctx2string(h, xw, tag)} })

(* xml_copy(x, xw): xw takes the name, the body and copies of the children *)
(* of x; the children of <new> are leaves here.                            *)
xml_copy(h, x, xw) ==
    [h EXCEPT !.name[xw] = h.name[x], !.body[xw] = h.body[x]]

changelog_replace(h, xw, xnew) ==
    IF xnew = -1 THEN OpRet(h, -1)
    ELSE The({ IF Len(h1.kids[xnew]) # 1 THEN OpRet(h1, -1)
               ELSE OpRet(xml_copy(h1, h1.kids[xnew][1], xw), 1)
               : h1 \in {[h EXCEPT !.kids[xw] = <<>>]} })

(* while ((x = xml_child_i(xnew, 0)) != NULL) xml_addsub(xw, x) *)
RECURSIVE changelog_insert_loop(_, _, _)
changelog_insert_loop(h, xw, xnew) ==
    IF h.kids[xnew] = <<>> THEN h
    ELSE changelog_insert_loop(xml_addsub(h, xw, Head(h.kids[xnew])), xw, xnew)

changelog_insert(h, xw, xnew) ==
    IF xnew = -1 THEN OpRet(h, -1)
    ELSE OpRet(changelog_insert_loop(h, xw, xnew), 1)

changelog_delete(h, xw) == OpRet(xml_purge(h, xw), 1)

changelog_move(h, xw, dst) ==
    The({ IF xp = -1 THEN OpRet(h, -1) ELSE OpRet(xml_addsub(h, xp, xw), 1)
          : xp \in {xpath_first(h, dst)} })

Ops == {"rename", "replace", "insert", "delete", "move"}

(* What is recorded of a run: "entry", the entry e is handed to            *)
(* changelog_iterate; "step", its step s is handed to changelog_op;        *)
(* "where", the nodes m are selected; "skip", the match w fails when;      *)
(* "node", the operation is applied to the match w with result ret; "ret", *)
(* changelog_op returns ret.                                               *)
ClEv(k, e, s, w, ret, m) ==
    [k |-> k, e |-> e, s |-> s, w |-> w, ret |-> ret, m |-> m,
     n0 |-> "", b0 |-> "", n1 |-> "", c0 |-> <<>>, c1 |-> <<>>,
     p0 |-> -1, p1 |-> -1, t0 |-> {}, t1 |-> {}, d0 |-> -1]

(* The node whose child list holds x; -1 if there is none. *)
ParentOf(h, x) ==
    IF \E p \in DOMAIN h.kids : \E n \in 1..Len(h.kids[p]) : h.kids[p][n] = x
    THEN CHOOSE p \in DOMAIN h.kids : \E n \in 1..Len(h.kids[p]) : h.kids[p][n] = x
    ELSE -1

(* The operation of the step xi on the match w of the tree h has given r:  *)
(* the name, body, children and parent of w and the nodes of the tree      *)
(* before it (n0, b0, c0, p0, t0) and after it (n1, c1, p1, t1), and the   *)
(* node dst selects (d0).                                                  *)
NodeEv(e, s, w, h, r, xi) ==
    [ClEv("node", e, s, w, r.ret, <<>>) EXCEPT
        !.n0 = h.name[w], !.b0 = h.body[w], !.n1 = r.h.name[w],
        !.c0 = h.kids[w], !.c1 = r.h.kids[w],
        !.p0 = ParentOf(h, w), !.p1 = ParentOf(r.h, w),
        !.t0 = TreeOf(h), !.t1 = TreeOf(r.h),
        !.d0 = IF xi.op = "move" THEN xpath_first(h, xi.dst) ELSE -1]

ClOut(h, tr, ret) == [h |-> h, tr |-> tr, ret |-> ret]

(* the loop of changelog_op over the matches of where *)
RECURSIVE changelog_op_loop(_, _, _, _, _, _)
changelog_op_loop(h, tr, xi, e, s, wvec) ==
    IF wvec = <<>> THEN ClOut(h, tr, 1)
    ELSE IF xi.when # "NULL" /\ ~ctx2boolean(h, Head(wvec), xi.when)
    THEN changelog_op_loop(h, Append(tr, ClEv("skip", e, s, Head(wvec), 1, <<>>)),
                           xi, e, s, Tail(wvec))
    ELSE IF xi.op \notin Ops THEN ClOut(h, tr, -1)
    ELSE The({ IF r.ret < 0
               THEN ClOut(r.h, Append(tr, NodeEv(e, s, Head(wvec), h, r, xi)), -1)
               ELSE IF r.ret = 0
               THEN ClOut(r.h, Append(tr, NodeEv(e, s, Head(wvec), h, r, xi)), 0)
               ELSE changelog_op_loop(r.h, Append(tr, NodeEv(e, s, Head(wvec), h, r, xi)),
                                      xi, e, s, Tail(wvec))
          : r \in {CASE xi.op = "rename" -> changelog_rename(h, Head(wvec), xi.tag)
                     [] xi.op = "replace" -> changelog_replace(h, Head(wvec), xi.new)
                     [] xi.op = "insert" -> changelog_insert(h, Head(wvec), xi.new)
                     [] xi.op = "delete" -> changelog_delete(h, Head(wvec))
                     [] OTHER -> changelog_move(h, Head(wvec), xi.dst)} })

changelog_op(h, tr, xi, e, s) ==
    IF xi.op = "NULL" \/ xi.where = "NULL" THEN ClOut(h, tr, 1)
    ELSE changelog_op_loop(h, Append(tr, ClEv("where", e, s, 0, 1, xpath_vec(h, xi.where))),
                           xi, e, s, xpath_vec(h, xi.where))

(* the loop over the steps, going on after a step that failed *)
RECURSIVE changelog_iterate_loop_goon(_, _, _, _, _)
changelog_iterate_loop_goon(h, tr, xch, e, s) ==
    IF s > Len(xch.steps) THEN ClOut(h, tr, 1)
    ELSE The({ changelog_iterate_loop_goon(r.h, Append(r.tr, ClEv("ret", e, s, 0, r.ret, <<>>)),
                                           xch, e, s + 1)
          : r \in {changelog_op(h, Append(tr, ClEv("step", e, s, 0, 1, <<>>)),
                                xch.steps[s], e, s)} })

(* the loop of changelog_iterate over the steps of the entry xch *)
RECURSIVE changelog_iterate_loop(_, _, _, _, _)
changelog_iterate_loop(h, tr, xch, e, s) ==
    IF s > Len(xch.steps) THEN ClOut(h, tr, 1)
    ELSE The({ IF r.ret < 0 THEN ClOut(r.h, Append(r.tr, ClEv("ret", e, s, 0, r.ret, <<>>)), -1)
               ELSE IF r.ret = 0 THEN ClOut(r.h, Append(r.tr, ClEv("ret", e, s, 0, r.ret, <<>>)), 0)
               ELSE changelog_iterate_loop(r.h, Append(r.tr, ClEv("ret", e, s, 0, r.ret, <<>>)),
                                           xch, e, s + 1)
          : r \in {changelog_op(h, Append(tr, ClEv("step", e, s, 0, 1, <<>>)),
                                xch.steps[s], e, s)} })

changelog_iterate(h, tr, xch, e) ==
    changelog_iterate_loop(h, Append(tr, ClEv("entry", e, 0, 0, 1, <<>>)), xch, e, 1)

(* if ((f && from>f) || to<t) continue; *)
OutsideInterval(f, t, from, to) == (f # 0 /\ from > f) \/ to < t

(* the loop of xml_changelog_upgrade over the entries of namespace ns *)
RECURSIVE xml_changelog_upgrade_loop(_, _, _, _, _, _, _)
xml_changelog_upgrade_loop(h, tr, xchlog, ns, from, to, e) ==
    IF e > Len(xchlog) THEN ClOut(h, tr, 1)
    ELSE IF xchlog[e].namespace # ns
    THEN xml_changelog_upgrade_loop(h, tr, xchlog, ns, from, to, e + 1)
    ELSE The({ IF pf.ret < 0 \/ pt.ret < 0 THEN ClOut(h, tr, -1)
               ELSE IF OutsideInterval(pf.date, pt.date, from, to)
               THEN xml_changelog_upgrade_loop(h, tr, xchlog, ns, from, to, e + 1)
               ELSE The({ IF r.ret < 0 THEN ClOut(r.h, r.tr, -1)
                          ELSE IF r.ret = 0 THEN ClOut(r.h, r.tr, 0)
                          ELSE xml_changelog_upgrade_loop(r.h, r.tr, xchlog, ns,
                                                          from, to, e + 1)
                     : r \in {changelog_iterate(h, tr, xchlog[e], e)} })
          : pf \in {IF xchlog[e].revfrom # 0 THEN ys_parse_date_arg(xchlog[e].revfrom)
                    ELSE [ret |-> 0, date |-> 0]},
            pt \in {IF xchlog[e].revision # 0 THEN ys_parse_date_arg(xchlog[e].revision)
                    ELSE [ret |-> 0, date |-> 0]} })

xml_changelog_upgrade(h, enabled, loaded, xchlog, ns, from, to) ==
    IF ~enabled THEN ClOut(h, <<>>, 1)
    ELSE IF ~loaded THEN ClOut(h, <<>>, 1)
    ELSE xml_changelog_upgrade_loop(h, <<>>, xchlog, ns, from, to, 1)

(* clixon_xml_changelog_init: the changelog file is read and kept, also    *)
(* when it does not validate; without a file name there is no changelog.   *)
InitOutcomes == {"nofile", "fopen", "parse", "invalid", "ok"}
clixon_xml_changelog_init(k) ==
    [ret |-> IF k \in {"fopen", "parse"} THEN -1 ELSE 0,
     loaded |-> k \in {"invalid", "ok"}]

(* ---- the inputs: trees to upgrade and changelog files ---- *)

Tags == {"NULL", ".", "'b'", "zz"}
Whens == {"NULL", "c"}
Wheres == {"a", "b"}
Dsts == {"a", "b", "zz"}
(* the number of children of <new>; -1: the step has no <new> *)
NewCounts == -1..2

StepOf(op, where, when, tag, dst, nk) ==
    [op |-> op, where |-> where, when |-> when, tag |-> tag, dst |-> dst,
     nk |-> nk, new |-> -1]

StepInputs ==
    {StepOf("rename", w, wh, tag, "NULL", -1) : w \in Wheres, wh \in Whens, tag \in Tags}
    \cup {StepOf(op, w, wh, "NULL", "NULL", nk) :
            op \in {"replace", "insert"}, w \in Wheres, wh \in Whens, nk \in NewCounts}
    \cup {StepOf("delete", w, wh, "NULL", "NULL", -1) : w \in Wheres, wh \in Whens}
    \cup {StepOf("move", w, wh, "NULL", dst, -1) : w \in Wheres, wh \in Whens, dst \in Dsts}
    \cup {StepOf("merge", w, "NULL", "NULL", "NULL", -1) : w \in Wheres}
    \cup {StepOf("NULL", "a", "NULL", "NULL", "NULL", -1),
          StepOf("delete", "NULL", "NULL", "NULL", "NULL", -1)}

(* Two steps in one entry: any unconditional step on the nodes a, then one *)
(* of three steps on the nodes b.                                          *)
FirstSteps == {st \in StepInputs : st.where = "a" /\ st.when = "NULL"}
SecondSteps == {StepOf("rename", "b", "NULL", ".", "NULL", -1),
                StepOf("insert", "b", "NULL", "NULL", "NULL", 1),
                StepOf("delete", "b", "NULL", "NULL", "NULL", -1)}
StepLists == {<<st>> : st \in StepInputs}
             \cup {<<s1, s2>> : s1 \in FirstSteps, s2 \in SecondSteps}

(* the steps of entry e, each with its own <new> element *)
PlaceSteps(steps, e) ==
    [s \in 1..Len(steps) |->
        [steps[s] EXCEPT !.new = IF steps[s].nk < 0 THEN -1 ELSE Holder(e, s)]]

Entry(ns, revfrom, revision, steps, e) ==
    [namespace |-> ns, revfrom |-> revfrom, revision |-> revision,
     steps |-> PlaceSteps(steps, e)]

(* Changelogs whose entries differ in their revisions, *)
RevisionSamples ==
    {<<Entry("m", f1, t1, <<StepOf("rename", "a", "NULL", "'b'", "NULL", -1)>>, 1),
       Entry(ns, f2, t2, <<StepOf("delete", "b", "NULL", "NULL", "NULL", -1)>>, 2)>> :
       f1 \in RevBodies, t1 \in RevBodies, ns \in Namespaces,
       f2 \in RevBodies, t2 \in RevBodies}

(* and changelogs whose entries differ in their steps. *)
StepSamples ==
    {<<Entry("m", 1, 2, sl, 1), Entry("m", 0, 2, <<st>>, 2)>> :
       sl \in StepLists,
       st \in {StepOf("rename", "a", "NULL", "'b'", "NULL", -1),
               StepOf("insert", "a", "NULL", "NULL", "NULL", 2)}}

(* The tree to upgrade: the nodes 1 and 2 below the top, 3 below 1. *)
TreeSamples == [n2 : {"a", "b"}, b1 : {"", "c"}]

HolderPos(x) == CHOOSE p \in EntryIdx \X StepIdx : Holder(p[1], p[2]) = x

MkKids(xchlog, x) ==
    CASE x = 0 -> <<1, 2>>
      [] x = 1 -> <<3>>
      [] \E e \in 1..Len(xchlog) : \E s \in 1..Len(xchlog[e].steps) :
            xchlog[e].steps[s].new = x
         -> The({ SubSeq(NewKids(p[1], p[2]), 1, xchlog[p[1]].steps[p[2]].nk)
                  : p \in {HolderPos(x)} })
      [] OTHER -> <<>>

MkHeap(t, xchlog) ==
    [kids |-> [x \in HeapIds \cup {0} |-> MkKids(xchlog, x)],
     name |-> [x \in HeapIds |->
                 CASE x = 1 -> "a" [] x = 2 -> t.n2 [] x = 3 -> "b"
                   [] OTHER -> "n"],
     body |-> [x \in HeapIds |->
                 CASE x = 1 -> t.b1 [] x = 2 -> "c" [] x = 3 -> ""
                   [] OTHER -> "v"]]

(* ---- the state machine of the upgrader ---- *)

ClStart(t, xchlog, enabled) ==
    [pc |-> "start", h |-> MkHeap(t, xchlog), h0 |-> MkHeap(t, xchlog),
     chlog |-> xchlog, enabled |-> enabled, loaded |-> FALSE, initret |-> 0,
     tr |-> <<>>, ret |-> 1, runs |-> 0, ns |-> "m", from |-> 0, to |-> 0]

BackendAtRest ==
    /\ db = [d \in DbNames |-> NoDb]
    /\ dirty = [d \in DbNames |-> 0]
    /\ flags = [d \in DbNames |-> Clean]
    /\ cc = CcIdle
    /\ feature = FALSE
    /\ booted = FALSE
    /\ pc = "idle"
    /\ ncalls = 0
    /\ prev = "none"
    /\ log = <<>>
    /\ td = NullTd
    /\ call = NoCall

InitCL ==
    /\ BackendAtRest
    /\ io = NoIo /\ dbg = NoDbg /\ netns = NoNetns
    /\ \/ \E xchlog \in RevisionSamples, enabled \in BOOLEAN :
             cl = ClStart([n2 |-> "b", b1 |-> "c"], xchlog, enabled)
       \/ \E xchlog \in StepSamples, t \in TreeSamples :
             cl = ClStart(t, xchlog, TRUE)

BackendVars == <<db, dirty, flags, cc, feature, booted, pc, ncalls, prev, log, td, call>>

(* The changelog file is read once, when the backend starts. *)
ClixonXmlChangelogInit ==
    /\ cl.pc = "start"
    /\ \E k \in InitOutcomes :
          cl' = The({ [cl EXCEPT !.pc = "ready", !.loaded = r.loaded, !.initret = r.ret]
                      : r \in {clixon_xml_changelog_init(k)} })
    /\ UNCHANGED <<BackendVars, io, dbg, netns>>

(* The upgrade callback is called for a module of namespace ns whose       *)
(* revision has changed; a later call is for another module of the same    *)
(* datastore.                                                              *)
UpgradeInputs ==
    IF cl.runs = 0 THEN Namespaces \X Revs \X Revs
    ELSE Namespaces \X {cl.from} \X {cl.to}

XmlChangelogUpgrade ==
    /\ cl.pc \in {"ready", "done"}
    /\ cl.runs < MaxRuns
    /\ \E in \in UpgradeInputs :
          cl' = The({ [cl EXCEPT !.pc = "done", !.h = r.h, !.h0 = cl.h, !.tr = r.tr,
                                 !.ret = r.ret, !.runs = @ + 1,
                                 !.ns = in[1], !.from = in[2], !.to = in[3]]
                      : r \in {xml_changelog_upgrade(cl.h, cl.enabled, cl.loaded,
                                                     cl.chlog, in[1], in[2], in[3])} })
    /\ UNCHANGED <<BackendVars, io, dbg, netns>>

NextCL == ClixonXmlChangelogInit \/ XmlChangelogUpgrade

SpecCL == InitCL /\ [][NextCL]_vars

-----------------------------------------------------------------------------
(* The XML printer (clixon_xml_io.c).                                      *)
(*                                                                         *)
(* A text is a sequence of characters.  What is written is a sequence of   *)
(* characters, each with its origin o: "m" markup, names and indentation,  *)
(* "e" a value in encoded form, "r" a value as it is stored.               *)

(* The indentation levels a tree is printed at. *)
MaxLevel == 1
(* Spaces per indentation level (clixon_xml_io.h). *)
PRETTYPRINT_INDENT == 3

Special == {"<", ">", "&", "'", "\""}

Txt(str, o) == [i \in 1..Len(str) |-> [c |-> str[i], o |-> o]]

(* printf("%*s", w, ""): a negative width pads to the left, as wide *)
Pad(w) == [i \in 1..(IF w < 0 THEN 0 - w ELSE w) |-> [c |-> " ", o |-> "m"]]

(* XML character encoding of one character and of a text *)
EncodeChar(c) ==
    CASE c = "&" -> <<"&", "a", "m", "p", ";">>
      [] c = "<" -> <<"&", "l", "t", ";">>
      [] c = ">" -> <<"&", "g", "t", ";">>
      [] c = "'" -> <<"&", "a", "p", "o", "s", ";">>
      [] c = "\"" -> <<"&", "q", "u", "o", "t", ";">>
      [] OTHER -> <<c>>

RECURSIVE xml_chardata_encode(_)
xml_chardata_encode(val) ==
    IF val = <<>> THEN <<>>
    ELSE EncodeChar(Head(val)) \o xml_chardata_encode(Tail(val))

(* A node: its type, name, prefix (<<>>: none), value (noval: NULL), and   *)
(* children.  bad: encoding its value fails for lack of memory; hide: its  *)
(* YANG statement has the autocli hide-show extension; exterr: looking the *)
(* extension up fails.                                                     *)
XNode(type, name, pfx, val, kids) ==
    [type |-> type, name |-> name, pfx |-> pfx, val |-> val, noval |-> FALSE,
     bad |-> FALSE, hide |-> FALSE, exterr |-> FALSE, kids |-> kids]

IoOut(out, ret) == [out |-> out, ret |-> ret]

Level1(level, prefix) == level * PRETTYPRINT_INDENT - Len(prefix)

NameOf(x) ==
    (IF x.pfx # <<>> THEN Txt(x.pfx, "m") \o Txt(<<":">>, "m") ELSE <<>>)
    \o Txt(x.name, "m")

HasType(kids, type) == \E i \in 1..Len(kids) : kids[i].type = type

RECURSIVE xml2file_recurse(_, _, _, _, _, _)
RECURSIVE xml2file_attrs(_, _, _, _, _, _)
RECURSIVE xml2file_children(_, _, _, _, _, _)

(* while ((xc = xml_child_each(x, xc, -1)) != NULL): the attributes *)
xml2file_attrs(out, kids, level, pretty, prefix, autocliext) ==
    IF kids = <<>> THEN IoOut(out, 0)
    ELSE IF Head(kids).type # "attr"
    THEN xml2file_attrs(out, Tail(kids), level, pretty, prefix, autocliext)
    ELSE The({ IF r.ret < 0 THEN r
               ELSE xml2file_attrs(r.out, Tail(kids), level, pretty, prefix, autocliext)
          : r \in {xml2file_recurse(out, Head(kids), level + 1, pretty, prefix,
                                    autocliext)} })

(* the second loop: the children that are no attributes *)
xml2file_children(out, kids, level, pretty, prefix, autocliext) ==
    IF kids = <<>> THEN IoOut(out, 0)
    ELSE IF Head(kids).type = "attr"
    THEN xml2file_children(out, Tail(kids), level, pretty, prefix, autocliext)
    ELSE The({ IF r.ret < 0 THEN r
               ELSE xml2file_children(r.out, Tail(kids), level, pretty, prefix,
                                      autocliext)
          : r \in {xml2file_recurse(out, Head(kids), level + 1, pretty, prefix,
                                    autocliext)} })

xml2file_recurse(out, x, level, pretty, prefix, autocliext) ==
    IF autocliext /\ x.exterr THEN IoOut(out, -1)
    ELSE IF autocliext /\ x.hide THEN IoOut(out, 0)
    ELSE CASE x.type = "body" ->
                IF x.noval THEN IoOut(out, 0)
                ELSE IF x.bad THEN IoOut(out, -1)
                ELSE IoOut(out \o Txt(xml_chardata_encode(x.val), "e"), 0)
           [] x.type = "attr" ->
                IoOut(out \o Txt(<<" ">>, "m") \o NameOf(x) \o Txt(<<"=", "\"">>, "m")
                          \o Txt(x.val, "r") \o Txt(<<"\"">>, "m"), 0)
           [] x.type = "elmnt" ->
                The({ IF a.ret < 0 THEN a
                      ELSE IF ~HasType(x.kids, "body") /\ ~HasType(x.kids, "elmnt")
                      THEN IoOut(a.out \o Txt(<<"/", ">">>, "m")
                                       \o (IF pretty THEN Txt(<<"\n">>, "m") ELSE <<>>), 0)
                      ELSE The({ IF c.ret < 0 THEN c
                                 ELSE IoOut(c.out
                                        \o (IF pretty /\ ~HasType(x.kids, "body")
                                            THEN (IF prefix # <<>> THEN Txt(prefix, "m")
                                                  ELSE <<>>)
                                                 \o Pad(Level1(level, prefix))
                                            ELSE <<>>)
                                        \o Txt(<<"<", "/">>, "m") \o NameOf(x)
                                        \o Txt(<<">">>, "m")
                                        \o (IF pretty THEN Txt(<<"\n">>, "m") ELSE <<>>), 0)
                            : c \in {xml2file_children(
                                       a.out \o Txt(<<">">>, "m")
                                             \o (IF pretty /\ ~HasType(x.kids, "body")
                                                 THEN Txt(<<"\n">>, "m") ELSE <<>>),
                                       x.kids, level, pretty, prefix, autocliext)} })
                  : a \in {xml2file_attrs(
                             out \o (IF pretty /\ prefix # <<>> THEN Txt(prefix, "m")
                                     ELSE <<>>)
                                 \o Pad(IF pretty THEN Level1(level, prefix) ELSE 0)
                                 \o Txt(<<"<">>, "m") \o NameOf(x),
                             x.kids, level, pretty, prefix, autocliext)} })
           [] OTHER -> IoOut(out, 0)

(* the loop of clixon_xml2file over the element children of the top *)
RECURSIVE clixon_xml2file_loop(_, _, _, _, _, _)
clixon_xml2file_loop(out, kids, level, pretty, prefix, autocliext) ==
    IF kids = <<>> THEN IoOut(out, 0)
    ELSE IF Head(kids).type # "elmnt"
    THEN clixon_xml2file_loop(out, Tail(kids), level, pretty, prefix, autocliext)
    ELSE The({ IF r.ret < 0 THEN IoOut(r.out, 1)
               ELSE clixon_xml2file_loop(r.out, Tail(kids), level, pretty, prefix,
                                         autocliext)
          : r \in {xml2file_recurse(out, Head(kids), level, pretty, prefix,
                                    autocliext)} })

(* int retval = 1; ... goto done on failure; retval = 0 at the end *)
clixon_xml2file(xn, level, pretty, prefix, skiptop, autocliext) ==
    IF skiptop
    THEN clixon_xml2file_loop(<<>>, xn.kids, level, pretty, prefix, autocliext)
    ELSE The({ IF r.ret < 0 THEN IoOut(r.out, 1) ELSE IoOut(r.out, 0)
          : r \in {xml2file_recurse(<<>>, xn, level, pretty, prefix, autocliext)} })

RECURSIVE clixon_xml2cbuf1(_, _, _, _, _, _)
RECURSIVE clixon_xml2cbuf1_attrs(_, _, _, _, _)
RECURSIVE clixon_xml2cbuf1_children(_, _, _, _, _, _)

clixon_xml2cbuf1_attrs(cb, kids, level, pretty, prefix) ==
    IF kids = <<>> THEN IoOut(cb, 0)
    ELSE IF Head(kids).type # "attr"
    THEN clixon_xml2cbuf1_attrs(cb, Tail(kids), level, pretty, prefix)
    ELSE The({ IF r.ret < 0 THEN r
               ELSE clixon_xml2cbuf1_attrs(r.out, Tail(kids), level, pretty, prefix)
          : r \in {clixon_xml2cbuf1(cb, Head(kids), level + 1, pretty, prefix, -1)} })

clixon_xml2cbuf1_children(cb, kids, level, pretty, prefix, depth) ==
    IF kids = <<>> THEN IoOut(cb, 0)
    ELSE IF Head(kids).type = "attr"
    THEN clixon_xml2cbuf1_children(cb, Tail(kids), level, pretty, prefix, depth)
    ELSE The({ IF r.ret < 0 THEN r
               ELSE clixon_xml2cbuf1_children(r.out, Tail(kids), level, pretty, prefix,
                                              depth)
          : r \in {clixon_xml2cbuf1(cb, Head(kids), level + 1, pretty, prefix,
                                    depth - 1)} })

clixon_xml2cbuf1(cb, x, level, pretty, prefix, depth) ==
    IF depth = 0 THEN IoOut(cb, 0)
    ELSE CASE x.type = "body" ->
                IF x.noval THEN IoOut(cb, 0)
                ELSE IF x.bad THEN IoOut(cb, -1)
                ELSE IoOut(cb \o Txt(xml_chardata_encode(x.val), "e"), 0)
           [] x.type = "attr" ->
                IoOut(cb \o Txt(<<" ">>, "m") \o NameOf(x) \o Txt(<<"=", "\"">>, "m")
                         \o Txt(x.val, "r") \o Txt(<<"\"">>, "m"), 0)
           [] x.type = "elmnt" ->
                The({ IF a.ret < 0 THEN a
                      ELSE IF ~HasType(x.kids, "body") /\ ~HasType(x.kids, "elmnt")
                      THEN IoOut(a.out \o Txt(<<"/", ">">>, "m")
                                       \o (IF pretty THEN Txt(<<"\n">>, "m") ELSE <<>>), 0)
                      ELSE The({ IF c.ret < 0 THEN c
                                 ELSE IoOut(c.out
                                        \o (IF pretty /\ ~HasType(x.kids, "body")
                                            THEN (IF prefix # <<>> THEN Txt(prefix, "m")
                                                  ELSE <<>>)
                                                 \o Pad(Level1(level, prefix))
                                            ELSE <<>>)
                                        \o Txt(<<"<", "/">>, "m") \o NameOf(x)
                                        \o Txt(<<">">>, "m")
                                        \o (IF pretty THEN Txt(<<"\n">>, "m") ELSE <<>>), 0)
                            : c \in {clixon_xml2cbuf1_children(
                                       a.out \o Txt(<<">">>, "m")
                                             \o (IF pretty /\ ~HasType(x.kids, "body")
                                                 THEN Txt(<<"\n">>, "m") ELSE <<>>),
                                       x.kids, level, pretty, prefix, depth)} })
                  : a \in {clixon_xml2cbuf1_attrs(
                             cb \o (IF pretty
                                    THEN (IF prefix # <<>> THEN Txt(prefix, "m") ELSE <<>>)
                                         \o Pad(Level1(level, prefix))
                                    ELSE <<>>)
                                \o Txt(<<"<">>, "m") \o NameOf(x),
                             x.kids, level, pretty, prefix)} })
           [] OTHER -> IoOut(cb, 0)

RECURSIVE clixon_xml2cbuf_loop(_, _, _, _, _, _)
clixon_xml2cbuf_loop(cb, kids, level, pretty, prefix, depth) ==
    IF kids = <<>> THEN IoOut(cb, 0)
    ELSE IF Head(kids).type # "elmnt"
    THEN clixon_xml2cbuf_loop(cb, Tail(kids), level, pretty, prefix, depth)
    ELSE The({ IF r.ret < 0 THEN IoOut(r.out, -1)
               ELSE clixon_xml2cbuf_loop(r.out, Tail(kids), level, pretty, prefix, depth)
          : r \in {clixon_xml2cbuf1(cb, Head(kids), level, pretty, prefix, depth)} })

(* clixon_xml2cbuf without the skiptop branch *)
clixon_xml2cbuf_withtop(xn, level, pretty, prefix, depth, skiptop) ==
    The({ IF r.ret < 0 THEN IoOut(r.out, -1) ELSE IoOut(r.out, 0)
          : r \in {clixon_xml2cbuf1(<<>>, xn, level, pretty, prefix, depth)} })

clixon_xml2cbuf(xn, level, pretty, prefix, depth, skiptop) ==
    IF skiptop
    THEN clixon_xml2cbuf_loop(<<>>, xn.kids, level, pretty, prefix, depth)
    ELSE The({ IF r.ret < 0 THEN IoOut(r.out, -1) ELSE IoOut(r.out, 0)
          : r \in {clixon_xml2cbuf1(<<>>, xn, level, pretty, prefix, depth)} })

(* The trees, values and arguments the printers are called with. *)
AttrVals == {<<"x">>, <<"<">>, <<"&", "\"">>, <<"'", ">">>}
BodyVals == {<<"x">>, <<"<", "&">>}
Prefixes == {<<>>, <<"#">>}
Depths == {-1, 1, 2}

Attr(pfx, val) == XNode("attr", <<"i">>, pfx, val, <<>>)
Body(val) == XNode("body", <<"b">>, <<>>, val, <<>>)
Elmnt(name, pfx, kids) == XNode("elmnt", name, pfx, <<>>, kids)

KidSamples ==
    {<<>>}
    \cup { <<Attr(<<>>, v)>> : v \in AttrVals }
    \cup { <<Attr(<<"n">>, v), Body(b)>> : v \in AttrVals, b \in BodyVals }
    \cup { <<Attr(<<>>, v), Elmnt(<<"c">>, <<"n">>, <<Body(b)>>)>>
           : v \in AttrVals, b \in BodyVals }
    \cup { <<Elmnt(<<"c">>, <<>>, <<Attr(<<>>, v), Body(<<"x">>)>>),
             Elmnt(<<"d">>, <<>>, <<>>)>>
           : v \in AttrVals }
    \cup { <<[Body(<<"x">>) EXCEPT !.noval = TRUE]>>,
           <<Elmnt(<<"c">>, <<>>, <<[Body(<<"x">>) EXCEPT !.bad = TRUE]>>),
             Elmnt(<<"d">>, <<>>, <<>>)>>,
           <<Elmnt(<<"c">>, <<>>, <<Body(<<"x">>)>>),
             [Elmnt(<<"d">>, <<>>, <<>>) EXCEPT !.hide = TRUE]>>,
           <<Elmnt(<<"c">>, <<>>, <<>>),
             [Elmnt(<<"d">>, <<>>, <<>>) EXCEPT !.exterr = TRUE]>> }

XmlSamples == { Elmnt(<<"a">>, pfx, kids) : pfx \in {<<>>, <<"n">>}, kids \in KidSamples }

InitIO ==
    /\ BackendAtRest
    /\ cl = NoCl /\ dbg = NoDbg /\ netns = NoNetns
    /\ io \in [pc : {"args"}, xn : XmlSamples, level : 0..MaxLevel, pretty : BOOLEAN,
               prefix : Prefixes, skiptop : BOOLEAN, autocliext : BOOLEAN,
               depth : Depths, called : {{}}, f : {IoOut(<<>>, 0)},
               cb : {IoOut(<<>>, 0)}]

(* clixon_xml2file(f, xn, level, pretty, prefix, fprintf, skiptop, autocliext) *)
ClixonXml2file ==
    /\ io.pc = "args" /\ "file" \notin io.called
    /\ io' = [io EXCEPT !.f = clixon_xml2file(io.xn, io.level, io.pretty, io.prefix,
                                              io.skiptop, io.autocliext),
                         !.called = @ \cup {"file"}]
    /\ UNCHANGED <<BackendVars, cl, dbg, netns>>

(* clixon_xml2cbuf(cb, xn, level, pretty, prefix, depth, skiptop), cb empty *)
ClixonXml2cbuf ==
    /\ io.pc = "args" /\ "cbuf" \notin io.called
    /\ io' = [io EXCEPT !.cb = clixon_xml2cbuf(io.xn, io.level, io.pretty, io.prefix,
                                               io.depth, io.skiptop),
                         !.called = @ \cup {"cbuf"}]
    /\ UNCHANGED <<BackendVars, cl, dbg, netns>>

NextIO == ClixonXml2file \/ ClixonXml2cbuf

SpecIO == InitIO /\ [][NextIO]_vars

-----------------------------------------------------------------------------
(* Debug messages (clixon_debug.c). *)

(* The debug levels and masks in use. *)
MaxDbg == 4
(* The longest message format. *)
Formats == {<<"m">>, <<"m", "s", "g">>}
(* clixon_log_string_limit_get(): 0 is no limit *)
Limits == {0, 2}

(* a & b on non-negative integers *)
RECURSIVE BitAnd(_, _)
BitAnd(a, b) ==
    IF a = 0 \/ b = 0 THEN 0
    ELSE (a % 2) * (b % 2) + 2 * BitAnd(a \div 2, b \div 2)

(* clixon_debug_init: _debug_level = dbglevel *)
clixon_debug_init(d, dbglevel) == [d EXCEPT !.level = dbglevel]

clixon_debug_get(d) == d.level

(* cbuf_trunc(cb, trunc) when 0 < trunc < cbuf_len(cb) *)
Truncated(str, trunc) ==
    IF trunc # 0 /\ trunc < Len(str) THEN SubSeq(str, 1, trunc) ELSE str

(* The outcome of one clixon_debug_fn call: ret, and the line handed to    *)
(* clixon_log_str, if any.  errmsg is what clixon_plugin_errmsg_all does:  *)
(* "err" fails, "custom" formats the message itself, "none" leaves it to   *)
(* the caller; nomem: cbuf_new fails; x: a tree or NoXml.                  *)
NoXml == [type |-> "none"]

clixon_debug_fn(d, dbglevel, x, format, errmsg, nomem, trunc) ==
    IF BitAnd(dbglevel, clixon_debug_get(d)) = 0
    THEN [ret |-> 0, logged |-> FALSE, str |-> <<>>]
    ELSE IF errmsg = "err" THEN [ret |-> -1, logged |-> FALSE, str |-> <<>>]
    ELSE IF errmsg = "custom" THEN [ret |-> 0, logged |-> TRUE, str |-> format]
    ELSE IF nomem THEN [ret |-> -1, logged |-> FALSE, str |-> <<>>]
    ELSE IF x = NoXml
    THEN [ret |-> 0, logged |-> TRUE, str |-> Truncated(format, trunc)]
    ELSE The({ IF r.ret < 0 THEN [ret |-> -1, logged |-> FALSE, str |-> <<>>]
               ELSE [ret |-> 0, logged |-> TRUE,
                     str |-> Truncated(format \o <<":", " ">> \o
                                       [i \in 1..Len(r.out) |-> r.out[i].c], trunc)]
          : r \in {clixon_xml2cbuf(x, 0, FALSE, <<>>, -1, FALSE)} })

DbgXml == {NoXml, Elmnt(<<"a">>, <<>>, <<Body(<<"<">>)>>),
           Elmnt(<<"a">>, <<>>, <<[Body(<<"x">>) EXCEPT !.bad = TRUE]>>)}

NoDbgCall == [dbglevel |-> 0, level |-> 0, ret |-> 0, logged |-> FALSE, str |-> <<>>]

(* static int _debug_level = 0 *)
InitDbg ==
    /\ BackendAtRest
    /\ cl = NoCl /\ io = NoIo /\ netns = NoNetns
    /\ dbg = [pc |-> "run", level |-> 0, called |-> FALSE, last |-> NoDbgCall]

ClixonDebugInit ==
    /\ dbg.pc = "run"
    /\ \E dbglevel \in 0..MaxDbg : dbg' = clixon_debug_init(dbg, dbglevel)
    /\ UNCHANGED <<BackendVars, cl, io, netns>>

ClixonDebugFn ==
    /\ dbg.pc = "run"
    /\ \E dbglevel \in 0..MaxDbg, x \in DbgXml, format \in Formats,
          errmsg \in {"err", "custom", "none"}, nomem \in BOOLEAN, trunc \in Limits :
         \E r \in {clixon_debug_fn(dbg, dbglevel, x, format, errmsg, nomem, trunc)} :
            dbg' = [dbg EXCEPT !.called = TRUE,
                               !.last = [dbglevel |-> dbglevel, level |-> dbg.level,
                                         ret |-> r.ret, logged |-> r.logged,
                                         str |-> r.str]]
    /\ UNCHANGED <<BackendVars, cl, io, netns>>

NextDbg == ClixonDebugInit \/ ClixonDebugFn

SpecDbg == InitDbg /\ [][NextDbg]_vars

-----------------------------------------------------------------------------
(* Sockets in a network namespace (clixon_netns.c).                        *)
(*                                                                         *)
(* fork_netns_socket runs in two processes, the parent and the child it    *)
(* forks, joined by a datagram socket pair.  env tells which system calls  *)
(* succeed.  *sock is "unset" (as the caller left it), "none" (-1),        *)
(* "listen" (the socket the child created) or "dummy" (the child's end of  *)
(* the pair, sent to wake the parent).                                     *)

SysCalls == {"socketpair", "stat", "fork", "open", "setns", "create_socket",
             "sendmsg", "recvmsg", "waitpid"}

(* send_sock: one message with the descriptor fd, or -1 when sendmsg     *)
(* fails; sent counts the messages on the socket pair                    *)
send_sock(n, fd) ==
    IF n.env["sendmsg"]
    THEN [n |-> [n EXCEPT !.msgs = Append(@, fd), !.sent = @ + 1], ret |-> 0]
    ELSE [n |-> n, ret |-> -1]

(* exit(status) of the child: its descriptors are closed *)
ChildExit(n, status) == [n EXCEPT !.child = "exited", !.status = status]

(* goto done / return retval of the parent *)
ParentReturn(n, retval) == [n EXCEPT !.parent = "returned", !.retval = retval]

InitNetns ==
    /\ BackendAtRest
    /\ cl = NoCl /\ io = NoIo /\ dbg = NoDbg
    /\ \E env \in [SysCalls -> BOOLEAN] :
          netns = [pc |-> "run", env |-> env, parent |-> "socketpair",
                   child |-> "none", status |-> 0, msgs |-> <<>>, sent |-> 0,
                   sock |-> "unset", wstatus |-> 0, retval |-> -1]

ParentAt(l) == netns.pc = "run" /\ netns.parent = l
ChildAt(l) == netns.pc = "run" /\ netns.child = l
Others == <<BackendVars, cl, io, dbg>>

(* socketpair(AF_UNIX, SOCK_DGRAM | SOCK_CLOEXEC, 0, sp) *)
Socketpair ==
    /\ ParentAt("socketpair")
    /\ netns' = IF netns.env["socketpair"] THEN [netns EXCEPT !.parent = "stat"]
                ELSE ParentReturn(netns, -1)
    /\ UNCHANGED Others

(* stat(nspath, &st): the namespace exists *)
Stat ==
    /\ ParentAt("stat")
    /\ netns' = IF netns.env["stat"] THEN [netns EXCEPT !.parent = "fork"]
                ELSE ParentReturn(netns, -1)
    /\ UNCHANGED Others

(* fork(); the parent closes sp[1] and goes on to get_sock *)
Fork ==
    /\ ParentAt("fork")
    /\ netns' = IF netns.env["fork"]
                THEN [netns EXCEPT !.parent = "get_sock", !.child = "open"]
                ELSE ParentReturn(netns, -1)
    /\ UNCHANGED Others

(* child: open(nspath, O_RDONLY) *)
ChildOpen ==
    /\ ChildAt("open")
    /\ netns' = IF netns.env["open"] THEN [netns EXCEPT !.child = "setns"]
                ELSE ChildExit(send_sock(netns, "dummy").n, 1)
    /\ UNCHANGED Others

(* child: setns(fd, CLONE_NEWNET) *)
ChildSetns ==
    /\ ChildAt("setns")
    /\ netns' = IF netns.env["setns"] THEN [netns EXCEPT !.child = "create_socket"]
                ELSE ChildExit(send_sock(netns, "dummy").n, 1)
    /\ UNCHANGED Others

(* child: create_socket(sa, sin_len, backlog, flags, addrstr, &s) *)
ChildCreateSocket ==
    /\ ChildAt("create_socket")
    /\ netns' = IF netns.env["create_socket"] THEN [netns EXCEPT !.child = "send_sock"]
                ELSE ChildExit(send_sock(netns, "dummy").n, 1)
    /\ UNCHANGED Others

(* child: if (send_sock(sp[1], s) < 0) exit(1); ... exit(0) *)
ChildSendSock ==
    /\ ChildAt("send_sock")
    /\ \E r \in {send_sock(netns, "listen")} :
          netns' = ChildExit(r.n, IF r.ret < 0 THEN 1 ELSE 0)
    /\ UNCHANGED Others

(* parent: get_sock(sp[0], sock).  recvmsg blocks until a message is there *)
(* (a datagram socket sees no end of file when its peer is closed), or     *)
(* fails                                                                   *)
GetSock ==
    /\ ParentAt("get_sock")
    /\ IF ~netns.env["recvmsg"] THEN netns' = ParentReturn(netns, -1)
       ELSE /\ netns.msgs # <<>>
            /\ netns' = [netns EXCEPT !.parent = "waitpid", !.sock = Head(netns.msgs),
                                      !.msgs = Tail(@)]
    /\ UNCHANGED Others

(* parent: waitpid(child, &wstatus, 0), then WEXITSTATUS(wstatus); wstatus *)
(* is 0 when waitpid fails                                                 *)
Waitpid ==
    /\ ParentAt("waitpid")
    /\ netns.env["waitpid"] => netns.child = "exited"
    /\ \E wstatus \in {IF netns.env["waitpid"] THEN netns.status ELSE 0} :
          netns' = IF wstatus # 0
                   THEN ParentReturn([netns EXCEPT !.wstatus = wstatus, !.sock = "none"],
                                     -1)
                   ELSE ParentReturn([netns EXCEPT !.wstatus = wstatus], 0)
    /\ UNCHANGED Others

ParentStep == Socketpair \/ Stat \/ Fork \/ GetSock \/ Waitpid
ChildStep == ChildOpen \/ ChildSetns \/ ChildCreateSocket \/ ChildSendSock

NextNetns == ParentStep \/ ChildStep

SpecNetns == InitNetns /\ [][NextNetns]_vars

(* Both processes are scheduled: a process that can take a step takes it. *)
SpecNetnsLive == SpecNetns /\ WF_vars(ParentStep) /\ WF_vars(ChildStep)

----------------------------------------------------------------------------
(* Properties *)

Returned(name) == pc = "returned" /\ call.name = name
EvIdx(ev) == {i \in 1..Len(log) : log[i].ev = ev}
Failed(ev) == \E i \in EvIdx(ev) : ~log[i].ok
Delivered(ev, p) == \E i \in EvIdx(ev) : log[i].p = p
DeliveredAll(ev) == \A p \in Plugins : Delivered(ev, p)
Ordered(rank(_)) ==
    \A j \in 1..Len(log) :
       \A rj \in {rank(log[j].ev)} :
          rj > 0 => \A i \in 1..(j - 1) : rank(log[i].ev) <= rj

(* C1: a candidate_commit that does not return 1 leaves the content of    *)
(* running as it was before the call.                                      *)
FailedCommitKeepsRunning_C1 ==
    Returned("candidate_commit") /\ call.ret # 1 => db["running"] = call.run0

(* a commit of a candidate that differs from running fails in commit-done *)
Witness_C1 ==
    /\ Returned("candidate_commit") /\ call.ret # 1
    /\ call.db0 # call.run0
    /\ Failed("commit_done")

(* C2: when candidate_commit returns 1, running has the content db had at *)
(* the start of the call and the dirty bit of db is 0.                    *)
CommitInstallsDb_C2 ==
    Returned("candidate_commit") /\ call.ret = 1
        => db["running"] = call.db0 /\ dirty[call.db] = 0

Witness_C2 ==
    /\ Returned("candidate_commit") /\ call.ret = 1
    /\ call.db0 # call.run0 /\ call.dirty0 = 1

(* C3: in candidate_commit the phases occur in the order begin, generic   *)
(* validation, validate, complete, commit, commit-done, end; a phase is   *)
(* entered only after every earlier phase was entered and succeeded; end  *)
(* is invoked only when the commit returns 1.                             *)
PhaseRank(ev) ==
    CASE ev = "begin" -> 1
      [] ev = "generic_validate" -> 2
      [] ev = "validate" -> 3
      [] ev = "complete" -> 4
      [] ev = "commit" -> 5
      [] ev = "commit_done" -> 6
      [] ev = "end" -> 7
      [] OTHER -> 0

SucceededBefore(k, j) ==
    IF k = 2
    THEN \E i \in 1..(j - 1) : log[i].ev = "generic_validate" /\ log[i].ok
    ELSE \A p \in Plugins :
            \E i \in 1..(j - 1) :
                PhaseRank(log[i].ev) = k /\ log[i].p = p /\ log[i].ok

PhaseOrder_C3 ==
    Returned("candidate_commit") =>
        /\ Ordered(PhaseRank)
        /\ \A j \in 1..Len(log) :
              (j = 1 \/ log[j - 1].ev # log[j].ev)
              => \A k \in 1..(PhaseRank(log[j].ev) - 1) : SucceededBefore(k, j)
        /\ (EvIdx("end") # {} => call.ret = 1)

Witness_C3 ==
    Returned("candidate_commit") /\ call.ret = 1 /\ DeliveredAll("end")

(* C4: in every transaction entry point, if a begin, validate or complete *)
(* callback or generic validation fails, abort is invoked on every plugin *)
(* that observed begin in that transaction.                               *)
EntryPoints == {"candidate_commit", "candidate_validate", "startup_commit",
                "startup_validate", "from_client_restart_one"}

ValidationFailed ==
    Failed("begin") \/ Failed("generic_validate") \/ Failed("validate")
        \/ Failed("complete")

AbortAfterFailure_C4 ==
    pc = "returned" /\ call.name \in EntryPoints /\ ValidationFailed
        => \A p \in Observed(log, "begin") : Delivered("abort", p)

SwapFirstRank(ev) ==
    CASE ev = "generic_validate" -> 1
      [] ev = "validate" -> 2
      [] ev = "xmldb_copy" -> 3
      [] ev = "commit" -> 4
      [] ev = "commit_done" -> 5
      [] ev = "end" -> 6
      [] OTHER -> 0

SwapBeforeCommit_C7 ==
    Returned("candidate_commit") /\ call.ret = 1 =>
        /\ Ordered(SwapFirstRank)
        /\ \A i \in EvIdx("commit") : log[i].run = call.db0

(* C7 as amended: the order is generic validation, validate callbacks,    *)
(* commit callbacks, commit-done callbacks, copy of db into running, end  *)
(* callbacks; running holds the old configuration while the commit and    *)
(* commit-done callbacks run and the new one when the end callbacks run.  *)
SwapLastRank(ev) ==
    CASE ev = "generic_validate" -> 1
      [] ev = "validate" -> 2
      [] ev = "commit" -> 3
      [] ev = "commit_done" -> 4
      [] ev = "xmldb_copy" -> 5
      [] ev = "end" -> 6
      [] OTHER -> 0

SwapAfterCommitDone_C7 ==
    Returned("candidate_commit") /\ call.ret = 1 =>
        /\ Ordered(SwapLastRank)
        /\ \A ev \in {"generic_validate", "xmldb_copy"} : EvIdx(ev) # {}
        /\ \A ev \in {"validate", "commit", "commit_done", "end"} : DeliveredAll(ev)
        /\ \A i \in EvIdx("commit") \cup EvIdx("commit_done") : log[i].run = call.run0
        /\ \A i \in EvIdx("end") : log[i].run = call.db0

Witness_C7 ==
    /\ Returned("candidate_commit") /\ call.ret = 1
    /\ call.db0 # call.run0
    /\ DeliveredAll("commit") /\ DeliveredAll("end")

(* C8 as claimed: after a successful commit of C, a second commit of the  *)
(* same unchanged C computes an empty diff, succeeds and leaves running   *)
(* as it was after the first.                                             *)
EmptyDiff == td.dvec = <<>> /\ td.avec = <<>> /\ td.scvec = <<>> /\ td.tcvec = <<>>

LastEvents(ev, ps) ==
    /\ Observed(log, ev) = ps
    /\ \A i \in EvIdx(ev) : \A j \in (i + 1)..Len(log) : log[j].ev = ev

ValidateFrame_C9 ==
    Returned("candidate_validate") =>
        /\ db["running"] = call.run0
        /\ db[call.db] = call.db0
        /\ EvIdx("commit") = {} /\ EvIdx("commit_done") = {}
        /\ (call.ret = 1 => LastEvents("end", Plugins) /\ EvIdx("abort") = {})
        /\ (call.ret # 1 => LastEvents("abort", Observed(log, "begin"))
                            /\ EvIdx("end") = {})

(* a validation that fails in generic validation, after begin *)
Witness_C9 ==
    /\ Returned("candidate_validate") /\ call.ret = 0
    /\ Failed("generic_validate") /\ DeliveredAll("abort")

(* C10: after a transaction has finished with end or abort, no node of    *)
(* any datastore tree carries ADD, DEL, CHANGE or MARK.                   *)
FlagsClean_C10 ==
    pc = "returned" /\ call.name \in EntryPoints \ {"startup_validate"}
        => \A d \in DbNames : \A n \in Nodes : flags[d][n] \cap Flags = {}

(* C11: in candidate_commit and candidate_validate, once both trees are   *)
(* loaded and before the diff is computed, no element of the target or of *)
(* the source tree carries ADD, DEL, CHANGE or MARK.                      *)
FlagsClearedBeforeDiff_C11 ==
    /\ pc = "returned" /\ call.name \in {"candidate_commit", "candidate_validate"}
    /\ td.marked
    => td.sclr = Clean /\ td.tclr = Clean

(* The elements of a tree with content c at or under a node of vec, and   *)
(* the elements above a node of vec.                                      *)
Subtree(c, vec) == {n \in Nodes : Present(c, n) /\ (InVec(vec, n) \/ UnderVec(vec, n))}
Ancestors(vec) == {n \in Nodes : OverVec(vec, n)}
Carry(fl, ns, F) == \A n \in ns : F \in fl[n]

(* C12: after the marking step of validate_common and of                  *)
(* from_client_restart_one, every deleted node and each of its            *)
(* descendants carries DEL, every added node and each of its descendants  *)
(* carries ADD, every changed source and target node carries CHANGE, and  *)
(* every ancestor of a deleted, added or changed node carries CHANGE.     *)
MarkingComplete_C12 ==
    /\ pc = "returned"
    /\ call.name \in {"candidate_commit", "candidate_validate",
                      "from_client_restart_one"}
    /\ td.marked
    => /\ Carry(td.smark, Subtree(td.stree, td.dvec), "DEL")
       /\ Carry(td.tmark, Subtree(td.ttree, td.avec), "ADD")
       /\ Carry(td.smark, {n \in Nodes : InVec(td.scvec, n)}, "CHANGE")
       /\ Carry(td.tmark, {n \in Nodes : InVec(td.tcvec, n)}, "CHANGE")
       /\ Carry(td.smark, Ancestors(td.dvec) \cup Ancestors(td.scvec), "CHANGE")
       /\ Carry(td.tmark, Ancestors(td.avec) \cup Ancestors(td.tcvec), "CHANGE")

(* a validation that deletes a subtree, and a restart that changes a leaf *)
(* and adds a node                                                        *)
Witness_C12 ==
    /\ pc = "returned" /\ td.marked
    /\ \/ /\ call.name = "candidate_validate"
          /\ td.dvec = <<"a", "b">>
          /\ "DEL" \in td.smark["ax"] /\ "CHANGE" \in td.smark["top"]
       \/ /\ call.name = "from_client_restart_one"
          /\ td.scvec = <<"ax">> /\ td.avec = <<"b">>
          /\ "CHANGE" \in td.tmark["a"]

(* C13: when validation of the candidate fails inside candidate_commit     *)
(* (the call returns 0), no datastore is created, modified or deleted and  *)
(* the confirmed-commit state is as before the call: no snapshot, no timer *)
(* armed, re-armed or cancelled.                                           *)
InvalidCommitTouchesNothing_C13 ==
    Returned("candidate_commit") /\ call.ret = 0
    => db = call.dbs0 /\ cc = call.cc0

Logged(evs) == \E i \in 1..Len(log) : log[i].ev \in evs
Phase2Guard == feature /\ call.cc0.state # "ROLLBACK" /\ call.xe # "NULL"

FailsafeLoaded_C16 ==
    Returned("load_failsafe")
    => /\ Logged({"end"}) => call.ret = 0
       /\ call.ret = 0
          => /\ call.dbs0["failsafe"] # NoDb
             /\ db["running"] = call.dbs0["failsafe"]
             /\ db["failsafe"] = call.dbs0["failsafe"]
             /\ db["tmp"] = call.dbs0["running"]

Witness_C16 ==
    /\ Returned("load_failsafe") /\ call.ret = 0 /\ Logged({"end"})
    /\ call.dbs0["running"] # call.dbs0["failsafe"]
    /\ call.dbs0["tmp"] # call.dbs0["running"]

RestoreFailed == \E i \in 1..Len(log) : log[i].ev = "restore" /\ ~log[i].ok

OwnPhaseBefore(i, ph) ==
    \E j \in 1..(i - 1) : log[j].ev = ph /\ log[j].p = log[i].p /\ log[j].ok

(* C18: in startup_commit, for every startup datastore content, a plugin's *)
(* commit and commit-done callbacks are invoked only after that plugin's   *)
(* begin, validate and complete callbacks were invoked and succeeded in    *)
(* the same transaction.                                                   *)
StartupCommitAfterBegin_C18 ==
    Returned("startup_commit")
    => \A i \in 1..Len(log) :
          log[i].ev \in {"commit", "commit_done"}
          => \A ph \in {"begin", "validate", "complete"} : OwnPhaseBefore(i, ph)

(* C19: for every call of startup_commit that does not return 1, the       *)
(* running datastore has the content it had before the call.               *)
StartupFailureKeepsRunning_C19 ==
    Returned("startup_commit") /\ call.ret # 1
    => db["running"] = call.dbs0["running"]

TopLevel(c) == {n \in Nodes : n # "top" /\ Parent[n] = "top" /\ Present(c, n)}
DocBefore(m, n) ==
    \E i, j \in 1..Len(DocOrder) : i < j /\ DocOrder[i] = m /\ DocOrder[j] = n

(* C20: in a startup transaction over a non-empty tree, the deleted and    *)
(* changed collections are empty, the added collection is exactly the      *)
(* top-level element children of the target in document order, and each    *)
(* added node and each of its element descendants carries ADD.             *)
StartupAllAdds_C20 ==
    /\ pc = "returned" /\ call.name \in {"startup_validate", "startup_commit"}
    /\ td.marked
    => /\ td.dvec = <<>> /\ td.scvec = <<>> /\ td.tcvec = <<>>
       /\ {td.avec[i] : i \in 1..Len(td.avec)} = TopLevel(td.ttree)
       /\ Len(td.avec) = Cardinality(TopLevel(td.ttree))
       /\ \A i, j \in 1..Len(td.avec) : i < j => DocBefore(td.avec[i], td.avec[j])
       /\ Carry(td.tmark, Subtree(td.ttree, td.avec), "ADD")

Witness_C20 ==
    /\ Returned("startup_commit") /\ td.marked /\ call.ret = 1
    /\ td.avec = <<"a", "b">>
    /\ "ADD" \in td.tmark["ax"]

UpgradeEvents == {"datastore_upgrade", "module_upgrade"}
AfterUpgradeEvents == {"bind_yang", "non_config", "xml_sort", "generic_validate",
                       "begin", "validate", "complete", "commit", "commit_done",
                       "end", "abort", "xmldb_put"}
StartupCalls == {"startup_validate", "startup_commit"}

PluginEvents == CbPhases \cup {"abort"}

(* C23 as stated: in from_client_restart_one the target tree of the        *)
(* transaction is read from the tmp datastore, and the callbacks are       *)
(* invoked for the given plugin only.                                      *)
RestartTargetIsTmp_C23 ==
    Returned("from_client_restart_one") /\ td.marked
    => /\ td.target = "tmp" /\ td.ttree = db["tmp"]
       /\ \A i \in 1..Len(log) : log[i].ev \in PluginEvents => log[i].p = call.cp

(* C23, amended: in from_client_restart_one the target tree is read from   *)
(* running and the source tree from tmp, as reset and rewritten by the     *)
(* plugin's reset callback, so that what running holds and tmp lacks is    *)
(* reported as added; the begin, validate, complete, commit, commit-done   *)
(* and end callbacks are invoked for the given plugin only.                *)
RestartTargetIsRunning_C23 ==
    Returned("from_client_restart_one") /\ td.marked
    => /\ td.target = "running" /\ td.ttree = call.dbs0["running"]
       /\ td.src = "tmp" /\ td.stree = db["tmp"]
       /\ db["running"] = call.dbs0["running"]
       /\ \A n \in Nodes : InVec(td.avec, n)
              => Present(db["running"], n) /\ ~Present(db["tmp"], n)
       /\ \A i \in 1..Len(log) : log[i].ev \in PluginEvents => log[i].p = call.cp

Witness_C23 ==
    /\ Returned("from_client_restart_one") /\ td.marked /\ call.ret = 1
    /\ call.cp = NPlugins
    /\ td.avec # <<>>
    /\ db["tmp"] # db["running"]
    /\ \A ph \in CbPhases : \E i \in EvIdx(ph) : log[i].p = call.cp /\ log[i].ok

LockedByOther == call.iddb # 0 /\ call.myid # call.iddb

(* C24 as stated: when running is locked by another session than the one   *)
(* issuing <commit>, from_client_commit replies with an in-use error,      *)
(* invokes no plugin callback and leaves running and candidate unchanged;  *)
(* otherwise the commit proceeds to candidate_commit.                      *)
CommitHonoursLock_C24 ==
    Returned("from_client_commit") /\ call.ret = 0
    => IF LockedByOther
       THEN /\ Logged({"reply_in_use"})
            /\ ~Logged(PluginEvents \cup {"candidate_commit"})
            /\ db["running"] = call.dbs0["running"]
            /\ db["candidate"] = call.dbs0["candidate"]
       ELSE Logged({"candidate_commit"})

(* C24, amended: unless the first phase of confirmed commit has answered   *)
(* the request (a valid confirming commit, which ends the pending          *)
(* confirmed commit whoever holds the lock), a <commit> finding running    *)
(* locked by another session is answered with an in-use error, invokes no  *)
(* plugin callback and leaves running and candidate unchanged, and a       *)
(* <commit> finding running unlocked or locked by its own session proceeds *)
(* to candidate_commit.                                                    *)
CommitHonoursLockAfterPhase1_C24 ==
    Returned("from_client_commit") /\ call.ret = 0 /\ ~Logged({"cc_confirm"})
    => IF LockedByOther
       THEN /\ Logged({"reply_in_use"})
            /\ ~Logged(PluginEvents \cup {"candidate_commit"})
            /\ db = call.dbs0 /\ cc = call.cc0
       ELSE Logged({"candidate_commit"})

Witness_C24 ==
    /\ Returned("from_client_commit") /\ call.ret = 0
    /\ LockedByOther /\ Logged({"reply_in_use"})
    /\ call.dbs0["candidate"] # call.dbs0["running"]
    /\ db["running"] = call.dbs0["running"]

(* The calls that run one transaction. *)
OneTransaction == EntryPoints \cup {"from_client_commit", "load_failsafe"}

(* C25: within one transaction each plugin receives each phase callback    *)
(* (begin, validate, complete, commit, commit-done, end, abort) at most    *)
(* once, and no transaction delivers both end and abort to one plugin.     *)
AtMostOnce_C25 ==
    pc = "returned" /\ call.name \in OneTransaction
    => /\ \A j \in 1..Len(log) :
             \A i \in 1..(j - 1) :
                \/ log[i].p # log[j].p
                \/ log[i].ev # log[j].ev
                \/ log[i].ev \notin PluginEvents
       /\ \A p \in Plugins : ~(Delivered("end", p) /\ Delivered("abort", p))

Witness_C25 ==
    /\ Returned("candidate_commit") /\ call.ret = -1
    /\ Failed("commit_done")
    /\ DeliveredAll("abort") /\ DeliveredAll("commit")
    /\ \A p \in Plugins : ~Delivered("end", p)

(* The outcome r is the one the step has produced, the log apart. *)
SameOutcome(r) ==
    /\ r.ret = call'.ret
    /\ r.s.db = db' /\ r.s.dirty = dirty' /\ r.s.cc = cc'

(* The outcome r is the one the step has produced. *)
ThisOutcome(r) == SameOutcome(r) /\ r.s.log = log'

AbortFailed == \E i \in EvIdx("abort") : ~log[i].ok

AbortIrrelevantStep ==
    pc' = "returned" /\ AbortFailed'
    => CASE call'.name = "candidate_commit" ->
              SameOutcome(candidate_commit(Cur, call'.xe, call'.db, call'.f, FALSE))
         [] call'.name = "candidate_validate" ->
              SameOutcome(candidate_validate(Cur, call'.db, call'.f, FALSE))
         [] call'.name = "startup_validate" ->
              \A up \in Upgrades, modstate \in BOOLEAN, reason \in BOOLEAN :
                 ThisOutcome(startup_validate(Cur, call'.db, call'.f, TRUE,
                                              up, modstate, reason))
                 => SameOutcome(startup_validate(Cur, call'.db, call'.f, FALSE,
                                                 up, modstate, reason))
         [] call'.name = "startup_commit" ->
              \A up \in Upgrades, modstate \in BOOLEAN, reason \in BOOLEAN :
                 ThisOutcome(startup_commit(Cur, call'.db, call'.f, TRUE,
                                            up, modstate, reason))
                 => SameOutcome(startup_commit(Cur, call'.db, call'.f, FALSE,
                                               up, modstate, reason))
         [] OTHER -> TRUE

(* C26: the value returned by candidate_commit, candidate_validate,        *)
(* startup_validate and startup_commit, and the datastores they leave, are *)
(* the same whether the abort callbacks succeed or fail.                   *)
AbortIrrelevant_C26 == [][AbortIrrelevantStep]_vars

Witness_C26 ==
    /\ pc = "returned" /\ AbortFailed
    /\ \/ call.name = "candidate_commit" /\ call.ret = -1 /\ Failed("commit")
       \/ call.name = "startup_commit" /\ call.ret = 0

-----------------------------------------------------------------------------
(* Properties of the changelog upgrader, checked under SpecCL. *)

(* An upgrade has run with the changelog enabled and loaded. *)
ClDone == cl.pc = "done" /\ cl.enabled /\ cl.loaded

ClIdx(k, e, s) ==
    {i \in 1..Len(cl.tr) : cl.tr[i].k = k /\ cl.tr[i].e = e /\ cl.tr[i].s = s}

(* The entries handed to changelog_iterate by the last run. *)
Applied == {e \in 1..Len(cl.chlog) : ClIdx("entry", e, 0) # {}}

(* The date of a <revfrom> or <revision> body; 0 if there is none. *)
DateOf(b) == IF b <= 0 THEN 0 ELSE ys_parse_date_arg(b).date

AppliedInInterval ==
    \A e \in Applied :
       /\ cl.chlog[e].namespace = cl.ns
       /\ cl.from < DateOf(cl.chlog[e].revision)
       /\ DateOf(cl.chlog[e].revision) <= cl.to

IntervalApplied ==
    cl.ret = 1 =>
       \A e \in 1..Len(cl.chlog) :
          /\ cl.chlog[e].namespace = cl.ns
          /\ cl.chlog[e].revfrom > 0 /\ cl.chlog[e].revision > 0
          /\ cl.from <= DateOf(cl.chlog[e].revfrom)
          /\ DateOf(cl.chlog[e].revision) <= cl.to
          => e \in Applied

NotInSystem == cl.to = 0 => Applied = {}

InChangelogOrder ==
    \A i, j \in 1..Len(cl.tr) : i < j => cl.tr[i].e <= cl.tr[j].e

(* C27: xml_changelog_upgrade(ns, from, to) applies an entry of namespace  *)
(* ns iff it lies in the upgrade interval: every applied entry has its     *)
(* revision t with from < t <= to, every entry with from <= revfrom and    *)
(* revision <= to is applied, no entry is applied when to = 0, and the     *)
(* entries are applied in changelog document order.                        *)
UpgradeInterval_C27 ==
    ClDone => /\ AppliedInInterval
              /\ IntervalApplied
              /\ NotInSystem
              /\ InChangelogOrder

(* The events of the step s of the entry e, and their places in the run. *)
StepEvents(e, s) == {i \in 1..Len(cl.tr) : cl.tr[i].e = e /\ cl.tr[i].s = s}

(* The run is the entries in changelog order and, in each, the steps in    *)
(* declared order, a step's events between its call and its return.        *)
InDeclaredOrder ==
    \A i, j \in 1..Len(cl.tr) :
       i < j => \/ cl.tr[i].e < cl.tr[j].e
                \/ cl.tr[i].e = cl.tr[j].e /\ cl.tr[i].s < cl.tr[j].s
                \/ /\ cl.tr[i].e = cl.tr[j].e /\ cl.tr[i].s = cl.tr[j].s
                   /\ cl.tr[i].k # "ret" /\ cl.tr[j].k \notin {"entry", "step"}

(* A step that returned 1 has met every node that its where selected, in   *)
(* document order: it has applied the operation to it or when was false.   *)
AllMatchesMet ==
    \A i \in 1..Len(cl.tr) :
       cl.tr[i].k = "ret" /\ cl.tr[i].ret = 1
       => \A j \in ClIdx("where", cl.tr[i].e, cl.tr[i].s) :
             /\ i = j + Len(cl.tr[j].m) + 1
             /\ \A n \in 1..Len(cl.tr[j].m) :
                   /\ cl.tr[j + n].k \in {"node", "skip"}
                   /\ cl.tr[j + n].w = cl.tr[j].m[n]

(* After a step that returned 0 or -1 nothing more is applied, and         *)
(* xml_changelog_upgrade returns what the step returned.                   *)
StopsAtFailure ==
    \A i \in 1..Len(cl.tr) :
       cl.tr[i].k = "ret" /\ cl.tr[i].ret < 1
       => i = Len(cl.tr) /\ cl.ret = cl.tr[i].ret

(* C28: within an entry the steps are applied in declared order, each to   *)
(* all of its matching nodes before the next step starts; after a step     *)
(* that reports failure (0) or error (-1) no later step and no later entry *)
(* is applied and xml_changelog_upgrade returns that result.               *)
StepsInOrder_C28 ==
    ClDone => InDeclaredOrder /\ AllMatchesMet /\ StopsAtFailure

Witness_C28 ==
    /\ ClDone /\ cl.ret = -1
    /\ \E i \in 1..Len(cl.tr) :
          /\ cl.tr[i].k = "ret" /\ cl.tr[i].ret = -1 /\ cl.tr[i].e = 1 /\ cl.tr[i].s = 2
          /\ Len(cl.chlog) > 1 /\ cl.chlog[2].namespace = cl.ns
          /\ ~OutsideInterval(DateOf(cl.chlog[2].revfrom), DateOf(cl.chlog[2].revision),
                              cl.from, cl.to)
    /\ \E j \in ClIdx("where", 1, 1) : Len(cl.tr[j].m) = 2

(* The operation op was applied with result 1 by the event i of the run. *)
AppliedOp(i, op) ==
    /\ cl.tr[i].k = "node" /\ cl.tr[i].ret = 1
    /\ cl.chlog[cl.tr[i].e].steps[cl.tr[i].s].op = op

(* The children <new> of the step of event i had in the changelog file. *)
NewOf(i) ==
    SubSeq(NewKids(cl.tr[i].e, cl.tr[i].s), 1,
           cl.chlog[cl.tr[i].e].steps[cl.tr[i].s].nk)

(* C29: every node matched by an insert step gains a copy of every child   *)
(* of the step's <new> element, and <new> keeps all its children.          *)
InsertCopies_C29 ==
    ClDone =>
       \A i \in 1..Len(cl.tr) :
          AppliedOp(i, "insert")
          => /\ cl.h.kids[Holder(cl.tr[i].e, cl.tr[i].s)] = NewOf(i)
             /\ Len(cl.h.kids[cl.tr[i].w]) >= Len(cl.h0.kids[cl.tr[i].w]) + Len(NewOf(i))

(* The rename step of the event i of the run, and the string value of its  *)
(* tag on a context node of body b: "." is the body, 'b' the text b, and a *)
(* path to no node the empty string.                                       *)
RenameAt(i) ==
    /\ cl.tr[i].k = "node"
    /\ cl.chlog[cl.tr[i].e].steps[cl.tr[i].s].op = "rename"
TagOf(i) == cl.chlog[cl.tr[i].e].steps[cl.tr[i].s].tag
StringValue(tag, b) == IF tag = "." THEN b ELSE IF tag = "'b'" THEN "b" ELSE ""
NoNewName(i) == TagOf(i) = "NULL" \/ StringValue(TagOf(i), cl.tr[i].b0) = ""

(* C30: a rename step sets the name of each matched node to the string     *)
(* value of tag with that match as context node; if tag is missing or its  *)
(* string value is empty the step ends with error (-1) and the matched     *)
(* node keeps its name.                                                    *)
RenameToTagValue_C30 ==
    ClDone =>
       \A i \in 1..Len(cl.tr) :
          RenameAt(i)
          => IF NoNewName(i)
             THEN /\ cl.tr[i].ret = -1 /\ cl.tr[i].n1 = cl.tr[i].n0
                  /\ cl.tr[i + 1].k = "ret" /\ cl.tr[i + 1].ret = -1
                  /\ cl.ret = -1
             ELSE /\ cl.tr[i].ret = 1
                  /\ cl.tr[i].n1 = StringValue(TagOf(i), cl.tr[i].b0)

Witness_C30 ==
    /\ ClDone
    /\ \E i, j \in 1..Len(cl.tr) :
          /\ RenameAt(i) /\ cl.tr[i].ret = 1 /\ cl.tr[i].n1 # cl.tr[i].n0
          /\ RenameAt(j) /\ cl.tr[j].ret = -1 /\ TagOf(j) = "."
          /\ i < j

(* The event i of the run is the operation op applied to a match. *)
OpAt(i, op) ==
    /\ cl.tr[i].k = "node"
    /\ cl.chlog[cl.tr[i].e].steps[cl.tr[i].s].op = op

(* C31: after a move step the match is a child of the node dst selects and *)
(* no longer a child of its former parent, and the tree of the top node    *)
(* has exactly the nodes it had before; if dst selects no node the step    *)
(* ends with error and the tree is unchanged.                              *)
MoveKeepsTree_C31 ==
    ClDone =>
       \A i \in 1..Len(cl.tr) :
          OpAt(i, "move")
          => IF cl.tr[i].d0 = -1
             THEN /\ cl.tr[i].ret = -1
                  /\ cl.tr[i].t1 = cl.tr[i].t0 /\ cl.tr[i].p1 = cl.tr[i].p0
                  /\ cl.tr[i].c1 = cl.tr[i].c0
             ELSE /\ cl.tr[i].ret = 1
                  /\ cl.tr[i].p1 = cl.tr[i].d0 /\ cl.tr[i].p1 # cl.tr[i].p0
                  /\ cl.tr[i].t1 = cl.tr[i].t0

StepAt(i) == cl.chlog[cl.tr[i].e].steps[cl.tr[i].s]

(* C36: if a replace step's <new> element is absent or does not have     *)
(* exactly one child, the step ends with error (-1) and the matched node, *)
(* including all of its children, is left unchanged.                      *)
ReplaceRejects_C36 ==
    ClDone =>
       \A i \in 1..Len(cl.tr) :
          (OpAt(i, "replace") /\ StepAt(i).nk # 1)
          => /\ cl.tr[i].ret = -1
             /\ cl.tr[i].n1 = cl.tr[i].n0
             /\ cl.tr[i].c1 = cl.tr[i].c0
             /\ cl.tr[i].t1 = cl.tr[i].t0

(* C37: a step whose op is not one of rename, replace, insert, delete or  *)
(* move makes changelog_op, and so xml_changelog_upgrade, end with error  *)
(* (-1) and applies no change, whatever the step's where expression       *)
(* selects, including when it selects no node.                            *)
UnknownOpFails_C37 ==
    ClDone =>
       \A i \in 1..Len(cl.tr) :
          (cl.tr[i].k = "ret" /\ StepAt(i).op \notin Ops \cup {"NULL"})
          => /\ cl.tr[i].ret = -1
             /\ cl.ret = -1
             /\ \A j \in StepEvents(cl.tr[i].e, cl.tr[i].s) : cl.tr[j].k # "node"


-----------------------------------------------------------------------------
(* Properties of the XML printer, checked under SpecIO. *)

Printed == { r \in {[by |-> "file", res |-> io.f], [by |-> "cbuf", res |-> io.cb]} :
             io.pc = "args" /\ r.by \in io.called }

(* C32: no text value reaches the output of clixon_xml2cbuf or             *)
(* clixon_xml2file without XML character encoding: no '<', '>', '&',       *)
(* single or double quote in the output is a character of a body or of an  *)
(* attribute value written as it is stored.                                *)
ValuesEncoded_C32 ==
    \A r \in Printed : \A i \in 1..Len(r.res.out) :
        r.res.out[i].o = "r" => r.res.out[i].c \notin Special

(* a node whose printing fails is reached by clixon_xml2file *)
RECURSIVE Fails(_, _)
Fails(x, autocliext) ==
    \/ autocliext /\ x.exterr
    \/ /\ ~(autocliext /\ x.hide)
       /\ \/ x.type = "body" /\ ~x.noval /\ x.bad
          \/ \E i \in 1..Len(x.kids) : Fails(x.kids[i], autocliext)

FileFails ==
    IF io.skiptop
    THEN \E i \in 1..Len(io.xn.kids) :
            io.xn.kids[i].type = "elmnt" /\ Fails(io.xn.kids[i], io.autocliext)
    ELSE Fails(io.xn, io.autocliext)

(* C33: clixon_xml2file returns 0 when the whole tree (with skiptop: every *)
(* element child of the top) was written, -1 when writing a node fails,    *)
(* and no other value.                                                     *)
FileReturn_C33 ==
    \A r \in Printed : r.by = "file" =>
        /\ r.res.ret \in {0, -1}
        /\ r.res.ret = -1 <=> FileFails

Chars(out) == [i \in 1..Len(out) |-> out[i].c]

(* C39: for every tree, level, pretty flag, prefix and skiptop value,      *)
(* clixon_xml2file with autocliext = 0 and clixon_xml2cbuf with depth = -1 *)
(* produce the same character sequence.                                    *)
SameCharacters_C39 ==
    (io.pc = "args" /\ io.called = {"file", "cbuf"} /\ ~io.autocliext /\ io.depth = -1)
        => Chars(io.f.out) = Chars(io.cb.out)

(* both have printed, indented with a line prefix and without the top, a   *)
(* tree with an attribute and a body                                       *)
Witness_C39 ==
    /\ io.pc = "args" /\ io.called = {"file", "cbuf"}
    /\ ~io.autocliext /\ io.depth = -1
    /\ io.pretty /\ io.prefix # <<>> /\ io.skiptop /\ io.level > 0
    /\ io.f.ret = 0 /\ io.cb.ret = 0
    /\ \E i \in 1..Len(io.cb.out) : io.cb.out[i].o = "r"
    /\ \E i \in 1..Len(io.cb.out) : io.cb.out[i].o = "e"

-----------------------------------------------------------------------------
(* Properties of the debug messages, checked under SpecDbg. *)

(* C34: a debug message issued with level dbglevel is emitted iff the      *)
(* level L set by clixon_debug_init satisfies L >= dbglevel, for all L and *)
(* dbglevel (calls that end with an error aside).                          *)
EmittedIffLevel_C34 ==
    (dbg.pc = "run" /\ dbg.called /\ dbg.last.ret = 0)
        => (dbg.last.logged <=> dbg.last.level >= dbg.last.dbglevel)

-----------------------------------------------------------------------------
(* Properties of <discard-changes>, checked under Spec. *)

Discarded == pc = "returned" /\ call.name = "from_client_discard_changes"

(* C35: from_client_discard_changes: if candidate is locked by a session   *)
(* other than the caller, the reply is a lock-denied error carrying the    *)
(* holder's session-id and candidate and its dirty bit are unchanged;      *)
(* otherwise, after a successful call, candidate equals running, its dirty *)
(* bit is 0 and the reply is <ok/>; running is unchanged in every case.    *)
DiscardChanges_C35 ==
    Discarded =>
        /\ db["running"] = call.run0
        /\ LockedByOther =>
              /\ db["candidate"] = call.db0
              /\ dirty["candidate"] = call.dirty0
              /\ call.f = NoFault =>
                    /\ call.ret = 0
                    /\ log # <<>>
                    /\ log[Len(log)].ev = "reply_lock_denied"
                    /\ log[Len(log)].p = call.iddb
        /\ (~LockedByOther /\ call.f = NoFault) =>
              /\ call.ret = 0
              /\ db["candidate"] = db["running"]
              /\ dirty["candidate"] = 0
              /\ log # <<>>
              /\ log[Len(log)].ev = "reply_ok"

(* the session holding the lock on candidate discards its changes *)
Witness_C35 ==
    /\ Discarded /\ call.f = NoFault
    /\ call.iddb # 0 /\ call.myid = call.iddb
    /\ call.db0 # call.run0 /\ call.dirty0 = 1
    /\ db["candidate"] = db["running"] /\ dirty["candidate"] = 0

-----------------------------------------------------------------------------
(* Properties of the restart of one plugin, checked under Spec. *)

(* the steps between the reset callback and the begin callback that every *)
(* restart reaches                                                        *)
AfterReset == {"context_check2", "transaction_new", "get_target", "validate_all_top"}

AllSucceeded ==
    /\ \E i \in 1..Len(log) : log[i].ev = "generic_validate" /\ log[i].ok
    /\ \A ph \in CbPhases : \E i \in EvIdx(ph) : log[i].p = call.cp /\ log[i].ok

(* C38: from_client_restart_one returns 1 only if generic validation and   *)
(* the plugin's begin, validate, complete, commit, commit-done and end     *)
(* callbacks all succeeded; an internal error after the reset callback     *)
(* yields -1, whatever non-negative value the reset callback returned.     *)
RestartReturn_C38 ==
    Returned("from_client_restart_one") =>
        /\ call.ret = 1 => AllSucceeded
        /\ (call.f.k = "err" /\ call.f.ph \in AfterReset) => call.ret = -1

-----------------------------------------------------------------------------
(* Properties of fork_netns_socket, checked under SpecNetnsLive. *)

ParentReturned == netns.pc = "run" /\ netns.parent = "returned"

ReturnsByChildStatus ==
    (ParentReturned /\ netns.child = "exited")
        => IF netns.status = 0 THEN netns.retval = 0 /\ netns.sock = "listen"
           ELSE netns.retval = -1 /\ netns.sock = "none"

(* C40: fork_netns_socket always terminates in the parent: on every path   *)
(* the child sends one descriptor message before it exits, so the parent's *)
(* blocking receive completes; the parent then returns 0 with the received *)
(* socket iff the child exited with status 0, and otherwise returns -1     *)
(* with *sock = -1.                                                        *)
ParentTerminates_C40 ==
    /\ [](ChildAt("exited") => netns.sent = 1)
    /\ <>ParentReturned
    /\ []ReturnsByChildStatus

====
